---- MODULE Spec2Model ----
(***************************************************************************)
(* Model of gonb's process executor (internal/jpyexec.Executor) and of the *)
(* parts of the kernel it drives: the interrupt subscription registry and  *)
(* the comms handler notifications.                                        *)
(*                                                                         *)
(* One Executor is modelled.  Exec() is split at every blocking call and   *)
(* at every point where another goroutine can observe its effects; done()  *)
(* is split statement by statement inside its critical section.  The two   *)
(* stream-copy goroutines, the interrupt callbacks (one goroutine per      *)
(* interrupt request) and the child process are separate processes.        *)
(***************************************************************************)
EXTENDS Integers, Sequences, FiniteSets, TLC

(* ------------------------------ bounds --------------------------------- *)
\* interrupt requests the front-end issues
MaxInterrupts == 2
\* chunks the child writes to each of stdout and stderr
MaxOut == 2
\* extra concurrent callers of done() (SpecTriggers only)
NumExtraDone == 1
\* Exec() calls on the one Executor (SpecReuse only)
MaxExecs == 2
\* calls of the kernel's message API by concurrent tasks
NumTasks == 3
\* number of input_reply messages the front-end sends during one execution
NumAnswers == 1
\* goroutines sending through the message API at the same time (SpecSockets only)
NumSenders == 2
\* buffer size of PipeWriterFifo (SpecFifo only)
FifoCap == 8
\* calls made on the gopls client (SpecGopls only)
MaxLspCalls == 3
\* chunks the child's stdin pipe holds before a write to it blocks
StdinCap == 1
\* publications of the child's output that fail during one Exec
MaxPubErrs == 1
\* input_reply messages of a front-end that repeats its answers (SpecReplies only)
NumReplies == 2
\* calls of LoadScriptModuleAndRun (SpecDom only)
MaxScripts == 3

(* ------------------------- program constants --------------------------- *)
\* var WaitToKill = 5 * time.Second, in seconds
WaitToKill == 5

Streams == {"stdout", "stderr"}
Handlers == 1..MaxInterrupts
ExtraCallers == 1..NumExtraDone
\* the goroutines that can run done(): Exec's deferred call (0) and the extra triggers
Callers == {0} \cup ExtraCallers
Tasks == 1..NumTasks
\* the tasks that deliver the front-end's answers
Answers == 1..NumAnswers
\* goroutines running schedulePromptFn: the one handleJupyterInput starts in the n-th
\* Exec (n), and the one writeStdinFn starts when called by task t (MaxExecs + t)
PrompterIds == 1..(MaxExecs + NumTasks)
\* goroutines writing to the child's stdin: handleStaticInput's (0), and the one
\* writeStdinFn starts when called by task t (t)
WriterIds == 0..NumTasks
\* WithStaticInput([]byte("42\n")), as the chunks a blocked write can be cut into
StaticInput == << "42", "\n" >>

VARIABLES
    \* --- configuration (frozen before Exec) ---
    useNamedPipes,        \* exec.useNamedPipes
    commsHandler,         \* exec.commsHandler != nil
    millisecondsToInput,  \* exec.millisecondsToInput
    customSink,           \* stdoutWriter/stderrWriter set by WithStdout/WithStderr (may fail)
    stdinContent,         \* exec.stdinContent as chunks; << >> is nil (not configured)
    \* --- Exec() ---
    execPc,               \* position of the goroutine running Exec()
    execNo,               \* number of Exec() calls begun
    execErr,              \* what Exec() returns: "unset", "nil" or the setup error
    panicked,             \* an unrecovered panic ended the program
    \* --- Executor state ---
    isDone,               \* exec.isDone
    doneChan,             \* exec.doneChan: 0 is nil, n > 0 the channel made by the n-th Exec
    closed,               \* per channel: whether close() was called on it
    muDone,               \* exec.muDone: -1 when free, else the caller holding it
    cmdStdout, cmdStderr, cmdStdin,   \* each "nil", "open" or "closed"
    \* --- done() callers ---
    dpc,                  \* per caller of done(): the statement it is at
    \* --- child and its stdio ---
    child,                \* "none", "running", "exited", "reaped"
    exitStatus,           \* what cmd.Wait() reports: "" until the child exits, then "ok"
                          \* or the text of the exit error
    written, pipeBuf, sunk,
    copier, copyErr,
    pubErr,               \* per stream: the chunks whose publication failed, as logged
    \* --- kernel interrupt registry ---
    subscribed,           \* the Executor's callback is in the registry
    interruptId,          \* Exec's local interruptId: "zero" or "id"
    interrupted,          \* kernel.Interrupted
    nInterrupts,
    handler,              \* one callback goroutine per interrupt request
    \* --- kernel message layer ---
    sent,                 \* envelopes handed to sendMessage, in order, with their socket
    stdinMsg,             \* kernel.stdinMsg: "nil" or the request that prompted
    stdinFn,              \* kernel.stdinFn: "nil" or the registered callback
    KnownBlockIds,        \* kernel.KnownBlockIds
    task,                 \* per task: the message API call it is running
    invoked,              \* calls of registered callbacks, in order
    \* --- input plumbing of the Executor ---
    prompter,             \* per schedulePromptFn goroutine: its position
    writer,               \* per stdin-writing goroutine: its position and data
    stdinPipe,            \* chunks in the child's stdin pipe, not yet read
    childRead,            \* chunks the child has read from its stdin
    \* --- history ---
    log,                  \* comms/teardown events of the current Exec, in order
    \* --- the sockets, frame by frame ---
    sockLock,             \* per socket: the sender inside RunLocked, 0 when free
    wire,                 \* per socket: the frames put on it, in order
    sender,               \* per sender: the send it is performing
    \* --- the queue of widget updates ---
    fifo,                 \* exec.PipeWriterFifo: the updates buffered in the channel
    produced,             \* updates handed to the queue so far
    dropped,              \* the updates that were dropped, in order
    consumed,             \* updates taken out by the writer of the named pipe
    \* --- one message through Encode and Decode ---
    codecIn,              \* the envelope given to Encode
    codecKey,             \* the signing key of the connection
    codecFrames,          \* the frames on the way: << >> before Encode
    codecTampered,        \* the frame changed on the way, 0 if none
    codecOut,             \* what Decode returned: the envelope and the error
    \* --- the gopls client ---
    fileVersions,         \* c.fileVersions: per file its version, 0 when it has no entry
    lspLog,               \* what was handed to c.jsonConn, in order, and whether it went
    lspCalls,             \* calls made on the Client so far
    \* --- the page of the front-end ---
    emitted,              \* the scripts handed to the front-end, in order
    evaluated,            \* how many of them the page has run
    head,                 \* the script elements of document.head, in order
    ran                   \* the runs of runJSFn, in order

coreVars == << useNamedPipes, commsHandler, millisecondsToInput, customSink, stdinContent,
               execPc, execNo, execErr, panicked,
               isDone, doneChan, closed, muDone, cmdStdout, cmdStderr, cmdStdin,
               dpc, child, exitStatus, written, pipeBuf, sunk, copier, copyErr, pubErr,
               subscribed, interruptId, interrupted, nInterrupts, handler,
               sent, stdinMsg, stdinFn, KnownBlockIds, task, invoked,
               prompter, writer, stdinPipe, childRead, log >>

\* the sockets at the level of frames
sockVars == << sockLock, wire, sender >>
\* the queue of widget updates
fifoVars == << fifo, produced, dropped, consumed >>
\* one message through Encode and Decode
codecVars == << codecIn, codecKey, codecFrames, codecTampered, codecOut >>
\* the gopls client
goplsVars == << fileVersions, lspLog, lspCalls >>
\* the page of the front-end
domVars == << emitted, evaluated, head, ran >>
extVars == << sockVars, fifoVars, codecVars, goplsVars, domVars >>

vars == << coreVars, extVars >>

cfgVars == << useNamedPipes, commsHandler, millisecondsToInput, customSink,
             stdinContent >>
msgVars == << sent, stdinMsg, stdinFn, KnownBlockIds, task, invoked >>
inputVars == << prompter, writer, stdinPipe, childRead >>
execVars == << execPc, execNo, execErr >>
doneVars == << isDone, doneChan, closed, muDone, dpc >>
fileVars == << cmdStdout, cmdStderr, cmdStdin >>
childVars == << child, exitStatus >>
streamVars == << written, pipeBuf, sunk, copier, copyErr, pubErr >>
kernelVars == << subscribed, interruptId, interrupted, nInterrupts >>

\* a callback goroutine that has not been started
\*   exec: the Exec call that subscribed it     chan: the channel its select waits on
\*   sawId: the interruptId it read            waited: seconds spent in the select
\*   branch: the select case taken             sigint, sigkill: the signals it sent
\*   doneFirst: exec.doneChan of its Exec call was already closed when it sent SIGKILL
IdleHandler == [pc |-> "idle", exec |-> 0, chan |-> 0, sawId |-> "none", waited |-> 0,
                branch |-> "none", sigint |-> FALSE, sigkill |-> FALSE,
                doneFirst |-> FALSE]

(* ------------------------- kernel message layer ------------------------ *)
\* the requests received from the front-end, by number; 0 stands for a nil message
Requests == {1, 2}
\* the request the Executor was created for: New(msg, ...)
ExecMsg == 1
\* the input_reply message a DeliverInput call is made on
InputReply == 2
\* callbacks (OnInputFn) are numbered: 0 is nil, t the closure task t passes to
\* PromptInput, and writeStdinFn the closure of handleJupyterInput
writeStdinFn == NumTasks + 1

\* the type of request r: the Executor's is the execute_request of the cell
RequestType(r) == IF r = ExecMsg THEN "execute_request" ELSE "input_reply"

\* zmqMsgHeader of request r as received
RequestHeader(r) ==
    [MsgID |-> << "request", r >>, Username |-> << "user", r >>,
     Session |-> << "session", r >>, MsgType |-> RequestType(r),
     ProtocolVersion |-> "5.4"]

\* mutant: the session id is generated anew instead of copied from the parent
NewComposedFreshSession(msgType, parent, n) ==
    [Header |-> [MsgID |-> << "uuid", n >>, Username |-> parent.Username,
                 Session |-> << "session", 0 - n >>, MsgType |-> msgType,
                 ProtocolVersion |-> "5.4"],
     ParentHeader |-> parent,
     Metadata |-> << >>,
     Content |-> << >>]

\* msg := &ComposedMsg{}; ParentHeader, Session and Username are taken from the parent,
\* the message id is a fresh uuid (the n-th made)
NewComposed(msgType, parent, n) ==
    [Header |-> [MsgID |-> << "uuid", n >>, Username |-> parent.Username,
                 Session |-> parent.Session, MsgType |-> msgType,
                 ProtocolVersion |-> "5.4"],
     ParentHeader |-> parent,
     Metadata |-> << >>,
     Content |-> << >>]

\* m.Identities of request r: the routing frames it arrived with
Identities(r) == IF r = 1 THEN << "client-a", "route-1" >> ELSE << "client-b" >>

\* []byte("<IDS|MSG>")
Delimiter == "<IDS|MSG>"

\* the key of the connection file, which signs every message of the kernel
ConnectionKey == "key"

\* the structured text encoding of one part: its fields by name, in a fixed order
SerializeHeader(h) ==
    << "msg_id", h.MsgID, "username", h.Username, "session", h.Session,
       "msg_type", h.MsgType, "version", h.ProtocolVersion >>
SerializeValue(v) == << "value", v >>

\* the four serialized parts, in header / parent-header / metadata / content order
Parts(msg) ==
    << SerializeHeader(msg.Header), SerializeHeader(msg.ParentHeader),
       SerializeValue(msg.Metadata), SerializeValue(msg.Content) >>

\* the keyed hash over the four serialized parts
Sign(key, parts) == << "hmac", key, parts >>

\* m.kernel.ToWireMsg(msg): the signature frame, then the four serialized parts
ToWireMsg(msg, key) == << Sign(key, Parts(msg)) >> \o Parts(msg)

\* mutant: the frames start at the delimiter, the routing identities are left out
SendSkipsIdentities(socket, msgType, r, content) ==
    LET msg == [NewComposed(msgType, RequestHeader(r), Len(sent) + 1)
                    EXCEPT !.Content = content]
    IN  Append(sent, [socket |-> socket, msg |-> msg,
                      frames |-> << Delimiter >> \o ToWireMsg(msg, ConnectionKey)])

\* m.sendMessage(socket, msg) after msg.Content = content, for the message m of request
\* r: frames = m.Identities, then "<IDS|MSG>", then the parts of ToWireMsg
Send(socket, msgType, r, content) ==
    LET msg == [NewComposed(msgType, RequestHeader(r), Len(sent) + 1)
                    EXCEPT !.Content = content]
    IN  Append(sent, [socket |-> socket, msg |-> msg,
                      frames |-> Identities(r) \o << Delimiter >>
                                     \o ToWireMsg(msg, ConnectionKey)])

\* a task that has not called the message API
\*   op: the call          r: the request whose message is the receiver
\*   arg: the callback (PromptInput) or the display id (PublishUpdateDisplayData)
\*   msgType: the message type requested or decided
\*   checked, seenFn, seenMsg: what DeliverInput read from the slot, in this order
\*   sentAt: position in sent of the envelope the call sent (0: none)
\*   accepted: writeStdinFn, called by DeliverInput, found the execution running
\*   ret: "none", "nil" or "err"
\*   began, order: the number of calls that had returned when this one was made, and
\*   its rank among the returned calls (0 until it returns)
IdleTask == [op |-> "none", pc |-> "idle", r |-> 0, arg |-> 0, msgType |-> "none",
             checked |-> 0, seenFn |-> 0, seenMsg |-> 0, sentAt |-> 0, ret |-> "none",
             accepted |-> FALSE, began |-> 0, order |-> 0]

\* a goroutine that is not running
IdlePrompter == [pc |-> "idle", exec |-> 0, slept |-> FALSE, prompted |-> FALSE]
IdleWriter == [pc |-> "idle", data |-> << >>, wrote |-> 0, failed |-> FALSE]

\* New(msg, command, args...) followed by the optional builder calls.
InitCore ==
    /\ useNamedPipes \in BOOLEAN
    /\ commsHandler \in BOOLEAN
    /\ (commsHandler => useNamedPipes)
    /\ millisecondsToInput \in {-1, 100}
    /\ customSink \in BOOLEAN
    /\ stdinContent \in {<< >>, StaticInput}
    \* WithStaticInput "conflicts with WithInputs and WithPassword"
    /\ (millisecondsToInput > 0 => stdinContent = << >>)
    /\ sent = << >>
    /\ stdinMsg = 0
    /\ stdinFn = 0
    /\ KnownBlockIds = {}
    /\ task = [t \in Tasks |-> IdleTask]
    /\ invoked = << >>
    /\ prompter = [p \in PrompterIds |-> IdlePrompter]
    /\ writer = [w \in WriterIds |-> IdleWriter]
    /\ stdinPipe = << >>
    /\ childRead = << >>
    /\ execPc = "configured"
    /\ execNo = 0
    /\ execErr = "unset"
    /\ panicked = FALSE
    /\ isDone = FALSE
    /\ doneChan = 0
    /\ closed = [n \in 1..MaxExecs |-> FALSE]
    /\ muDone = -1
    /\ cmdStdout = "nil" /\ cmdStderr = "nil" /\ cmdStdin = "nil"
    /\ dpc = [c \in Callers |-> "idle"]
    /\ child = "none"
    /\ exitStatus = ""
    /\ written = [s \in Streams |-> << >>]
    /\ pipeBuf = [s \in Streams |-> << >>]
    /\ sunk = [s \in Streams |-> << >>]
    /\ copier = [s \in Streams |-> "none"]
    /\ copyErr = [s \in Streams |-> FALSE]
    /\ pubErr = [s \in Streams |-> << >>]
    /\ subscribed = FALSE
    /\ interruptId = "zero"
    /\ interrupted = FALSE
    /\ nInterrupts = 0
    /\ handler = [h \in Handlers |-> IdleHandler]
    /\ log = << >>

(* -------------------- the sockets, frame by frame ----------------------- *)
\* the goroutines that send through the message API at the same time
Senders == 1..NumSenders
\* IOPubSocket, ShellSocket and StdinSocket of m.kernel.sockets
Sockets == {"iopub", "shell", "stdin"}
SendOps == {"Publish", "Reply", "PromptInput"}

\* the socket each call sends on
SocketOf(op) ==
    CASE op = "Publish" -> "iopub"
      [] op = "Reply" -> "shell"
      [] op = "PromptInput" -> "stdin"
\* the message type the call is made with
TypeOf(op) ==
    CASE op = "Publish" -> "stream"
      [] op = "Reply" -> "execute_reply"
      [] op = "PromptInput" -> "input_request"

\* a goroutine that is not sending
\*   frames: the frames of its message     next: the frame SendMulti writes next
\*   locked: it is inside RunLocked
IdleSender == [pc |-> "idle", op |-> "none", socket |-> "none", frames |-> << >>,
               next |-> 0, locked |-> FALSE]

\* no send has begun
InitSockets ==
    /\ sockLock = [k \in Sockets |-> 0]
    /\ wire = [k \in Sockets |-> << >>]
    /\ sender = [s \in Senders |-> IdleSender]

\* what a send leaves alone
sockFrame == << coreVars, fifoVars, codecVars, goplsVars, domVars >>

\* the frames sendMessage builds for a message of type msgType answering request r
FramesOf(msgType, r, n) ==
    Identities(r) \o << Delimiter >>
        \o ToWireMsg(NewComposed(msgType, RequestHeader(r), n), ConnectionKey)

\* mutant: the call hands the socket to sendMessage itself, without RunLocked
ChannelCallUnlocked(s) ==
    /\ sender[s].pc = "idle"
    /\ \E op \in SendOps, r \in Requests :
           sender' = [sender EXCEPT ![s] =
                         [pc |-> "sendMulti", op |-> op, socket |-> SocketOf(op),
                          frames |-> FramesOf(TypeOf(op), r, s), next |-> 1,
                          locked |-> FALSE]]
    /\ UNCHANGED << sockFrame, sockLock, wire >>

\* Publish, Reply or PromptInput up to its call of RunLocked on its socket: NewComposed,
\* msg.Content = content, then <socket>.RunLocked(func(socket) { m.sendMessage(...) })
ChannelCall(s) ==
    /\ sender[s].pc = "idle"
    /\ \E op \in SendOps, r \in Requests :
           sender' = [sender EXCEPT ![s] =
                         [pc |-> "lock", op |-> op, socket |-> SocketOf(op),
                          frames |-> FramesOf(TypeOf(op), r, s), next |-> 1,
                          locked |-> FALSE]]
    /\ UNCHANGED << sockFrame, sockLock, wire >>

\* RunLocked acquires the exclusive access of the socket
RunLockedAcquire(s) ==
    /\ sender[s].pc = "lock"
    /\ sockLock[sender[s].socket] = 0
    /\ sockLock' = [sockLock EXCEPT ![sender[s].socket] = s]
    /\ sender' = [sender EXCEPT ![s].pc = "sendMulti", ![s].locked = TRUE]
    /\ UNCHANGED << sockFrame, wire >>

\* socket.SendMulti(zmq4.NewMsgFrom(frames...)) puts the next frame on the socket
SendMultiFrame(s) ==
    /\ sender[s].pc = "sendMulti"
    /\ wire' = [wire EXCEPT ![sender[s].socket] =
                    Append(@, [by |-> s, k |-> sender[s].next,
                               frame |-> sender[s].frames[sender[s].next]])]
    /\ sender' = [sender EXCEPT
                     ![s].next = @ + 1,
                     ![s].pc = IF sender[s].next < Len(sender[s].frames) THEN "sendMulti"
                               ELSE IF sender[s].locked THEN "unlock" ELSE "returned"]
    /\ UNCHANGED << sockFrame, sockLock >>

\* RunLocked releases the socket and returns what the function returned
RunLockedRelease(s) ==
    /\ sender[s].pc = "unlock"
    /\ sockLock[sender[s].socket] = s
    /\ sockLock' = [sockLock EXCEPT ![sender[s].socket] = 0]
    /\ sender' = [sender EXCEPT ![s].pc = "returned", ![s].locked = FALSE]
    /\ UNCHANGED << sockFrame, wire >>

(* --------------------- the queue of widget updates ---------------------- *)
\* the updates the comms handler produces during one execution
MaxUpdates == FifoCap + 5

\* PipeWriterFifo is made with a fixed buffer; nothing has been produced
InitFifo ==
    /\ fifo = << >>
    /\ produced = 0
    /\ dropped = << >>
    /\ consumed = 0


\* what the queue operations leave alone
fifoFrame == << coreVars, sockVars, codecVars, goplsVars, domVars >>

\* mutant: the producer waits for room in the buffer
ProduceUpdateBlocks ==
    /\ produced < MaxUpdates
    /\ Len(fifo) < FifoCap
    /\ produced' = produced + 1
    /\ fifo' = Append(fifo, produced + 1)
    /\ UNCHANGED << fifoFrame, dropped, consumed >>

\* the comms handler hands the next update to PipeWriterFifo without waiting: it is
\* queued if the buffer has room and dropped otherwise
ProduceUpdate ==
    /\ produced < MaxUpdates
    /\ produced' = produced + 1
    /\ IF Len(fifo) < FifoCap
       THEN fifo' = Append(fifo, produced + 1) /\ UNCHANGED dropped
       ELSE dropped' = Append(dropped, produced + 1) /\ UNCHANGED fifo
    /\ UNCHANGED << fifoFrame, consumed >>

\* the writer of the named pipe takes the oldest update out of PipeWriterFifo
ConsumeUpdate ==
    /\ fifo # << >>
    /\ fifo' = Tail(fifo)
    /\ consumed' = consumed + 1
    /\ UNCHANGED << fifoFrame, produced, dropped >>

(* --------------------------- Encode and Decode -------------------------- *)
\* the signing keys tried
Keys == {ConnectionKey, "other-key"}

\* the envelopes tried: replies of two types to either request, with and without
\* metadata and content
Envelopes ==
    {[NewComposed(ty, RequestHeader(r), 1) EXCEPT !.Metadata = md, !.Content = c] :
        ty \in {"stream", "execute_reply"}, r \in Requests,
        md \in {<< >>, << "meta" >>}, c \in {<< >>, << "content" >>}}

\* Encode(envelope, signingKey): the delimiter, the signature frame, the four parts
Encode(env, key) == << Delimiter >> \o ToWireMsg(env, key)

\* the value of the field called name in a serialized part; other fields are ignored
Field(s, name) ==
    s[(CHOOSE i \in DOMAIN s : i % 2 = 1 /\ s[i] = name) + 1]

\* mutant: the session of the header is not read back
ParseHeaderLosesSession(s) ==
    [MsgID |-> Field(s, "msg_id"), Username |-> Field(s, "username"),
     Session |-> << >>, MsgType |-> Field(s, "msg_type"),
     ProtocolVersion |-> Field(s, "version")]

\* a header read back from its serialized form
ParseHeader(s) ==
    [MsgID |-> Field(s, "msg_id"), Username |-> Field(s, "username"),
     Session |-> Field(s, "session"), MsgType |-> Field(s, "msg_type"),
     ProtocolVersion |-> Field(s, "version")]

InvalidSignature == "message had an invalid signature"

\* the zero ComposedMsg, returned along with an error
ZeroHeader == [MsgID |-> << >>, Username |-> << >>, Session |-> << >>, MsgType |-> "",
               ProtocolVersion |-> ""]
ZeroEnvelope == [Header |-> ZeroHeader, ParentHeader |-> ZeroHeader, Metadata |-> << >>,
                 Content |-> << >>]
\* Decode has not been called
NotDecoded == [done |-> FALSE, env |-> ZeroEnvelope, err |-> "nil"]

\* mutant: the signature is not compared
DecodeTrusts(frames, key) ==
    [done |-> TRUE, err |-> "nil",
     env |-> [Header |-> ParseHeader(frames[3]), ParentHeader |-> ParseHeader(frames[4]),
              Metadata |-> Field(frames[5], "value"),
              Content |-> Field(frames[6], "value")]]

\* Decode(frames, signingKey): the signature is computed again over the four parts
\* received and compared with the one received; on a mismatch the error is returned
\* and no envelope, else the four parts are parsed
Decode(frames, key) ==
    IF Sign(key, SubSeq(frames, 3, 6)) # frames[2]
    THEN [done |-> TRUE, env |-> ZeroEnvelope, err |-> InvalidSignature]
    ELSE [done |-> TRUE, err |-> "nil",
          env |-> [Header |-> ParseHeader(frames[3]),
                   ParentHeader |-> ParseHeader(frames[4]),
                   Metadata |-> Field(frames[5], "value"),
                   Content |-> Field(frames[6], "value")]]

\* no message is on its way
InitCodec ==
    /\ codecIn = NewComposed("stream", RequestHeader(ExecMsg), 1)
    /\ codecKey = ConnectionKey
    /\ codecFrames = << >>
    /\ codecTampered = 0
    /\ codecOut = NotDecoded


\* what Encode and Decode leave alone
codecFrame == << coreVars, sockVars, fifoVars, goplsVars, domVars, codecIn, codecKey >>

\* the sender encodes the envelope with the key
DoEncode ==
    /\ codecFrames = << >>
    /\ codecFrames' = Encode(codecIn, codecKey)
    /\ UNCHANGED << codecFrame, codecTampered, codecOut >>

\* one frame, the signature or one of the four parts, is changed on the way: it becomes
\* the frame another envelope or another key would have given there
Tamper ==
    /\ codecFrames # << >>
    /\ codecTampered = 0
    /\ codecOut = NotDecoded
    /\ \E i \in 2..6, e \in Envelopes, k \in Keys :
          /\ Encode(e, k)[i] # codecFrames[i]
          /\ codecFrames' = [codecFrames EXCEPT ![i] = Encode(e, k)[i]]
          /\ codecTampered' = i
    /\ UNCHANGED << codecFrame, codecOut >>

\* the receiver decodes the frames with the same key
DoDecode ==
    /\ codecFrames # << >>
    /\ codecOut = NotDecoded
    /\ codecOut' = Decode(codecFrames, codecKey)
    /\ UNCHANGED << codecFrame, codecFrames, codecTampered >>

(* ---------------------------- the gopls client -------------------------- *)
\* the files the kernel asks about
Files == {"a.go", "b.go"}

\* a Client that has connected and sent nothing
InitGopls ==
    /\ fileVersions = [f \in Files |-> 0]
    /\ lspLog = << >>
    /\ lspCalls = 0

\* a page with no script element, and no script emitted yet
InitDom ==
    /\ emitted = << >>
    /\ evaluated = 0
    /\ head = << >>
    /\ ran = << >>

Init == InitCore /\ InitSockets /\ InitFifo /\ InitCodec /\ InitGopls /\ InitDom

\* what the client's calls leave alone
goplsFrame == << coreVars, sockVars, fifoVars, codecVars, domVars >>

\* how a NotifyDidOpen can end: c.FileData fails, c.jsonConn.Notify fails, or it is sent
NotifyOutcomes == {"fileErr", "notifyErr", "ok"}

\* c.fileVersions after NotifyDidOpen(f) ending with outcome o: the version is
\* incremented and stored once FileData has succeeded, before Notify is called
VersionsAfterNotify(f, o) ==
    IF o = "fileErr" THEN fileVersions
    ELSE [fileVersions EXCEPT ![f] = @ + 1]

\* what NotifyDidOpen(f) hands to c.jsonConn.Notify
LogAfterNotify(f, o) ==
    IF o = "fileErr" THEN lspLog
    ELSE Append(lspLog, [method |-> "didOpen", file |-> f, ok |-> (o = "ok")])

\* _, found := c.fileVersions[filePath]
Found(f) == fileVersions[f] # 0

\* c.NotifyDidOpen(ctx, filePath) called by the kernel itself
NotifyDidOpen(f) ==
    /\ lspCalls < MaxLspCalls
    /\ lspCalls' = lspCalls + 1
    /\ \E o \in NotifyOutcomes :
          /\ fileVersions' = VersionsAfterNotify(f, o)
          /\ lspLog' = LogAfterNotify(f, o)
    /\ UNCHANGED goplsFrame

\* CallDefinition or CallHover: if the file has no entry in c.fileVersions,
\* NotifyDidOpen first, and return its error if it fails; then c.jsonConn.Call
LspRequest(method, f) ==
    /\ lspCalls < MaxLspCalls
    /\ lspCalls' = lspCalls + 1
    /\ \E ok \in BOOLEAN :
          IF Found(f)
          THEN /\ lspLog' = Append(lspLog, [method |-> method, file |-> f, ok |-> ok])
               /\ UNCHANGED fileVersions
          ELSE \E o \in NotifyOutcomes :
                  /\ fileVersions' = VersionsAfterNotify(f, o)
                  /\ lspLog' = IF o = "ok"
                                THEN Append(LogAfterNotify(f, o),
                                            [method |-> method, file |-> f, ok |-> ok])
                                ELSE LogAfterNotify(f, o)
    /\ UNCHANGED goplsFrame

\* c.CallDefinition(ctx, filePath, line, col)
CallDefinition(f) == LspRequest("definition", f)

\* c.CallHover(ctx, filePath, line, col)
CallHover(f) == LspRequest("hover", f)

(* ------------------- dom.LoadScriptModuleAndRun ------------------------ *)
\* what the calls and the page leave alone
domFrame == << coreVars, sockVars, fifoVars, codecVars, goplsVars >>

\* the modules asked for
Srcs == {"a.js", "b.js"}

\* loadAndRunTmpl: the statements of the template, one after the other; each is the
\* function expression (() => { ... })() over the same {{.Src}} and {{.RunJS}}
loadAndRunTmpl == << "iife", "iife" >>

\* the module of src has been loaded by the page
IsLoaded(h, src) == \E i \in DOMAIN h : h[i].src = src /\ h[i].loaded

\* one (() => { ... })() of the script of call c, run on the page st = [head, ran]:
\* a script element of document.head with this src runs runJSFn at once; otherwise an
\* element is created with onload = runJSFn and appended to document.head
IIFE(c, src, st) ==
    IF \E i \in DOMAIN st.head : st.head[i].src = src
    THEN [st EXCEPT !.ran = Append(@, [call |-> c, src |-> src,
                                       loaded |-> IsLoaded(st.head, src)])]
    ELSE [st EXCEPT !.head = Append(@, [src |-> src, loaded |-> FALSE, onload |-> c])]

\* the statements of a script from the n-th on, run in order without interruption
RECURSIVE RunFrom(_, _, _, _, _)
RunFrom(n, stmts, c, src, st) ==
    IF n > Len(stmts) THEN st
    ELSE RunFrom(n + 1, stmts, c, src, IIFE(c, src, st))

\* LoadScriptModuleAndRun(src, attributes, runJS): the template is executed and the
\* result handed to gonbui.ScriptJavascript
LoadScriptModuleAndRun(src) ==
    /\ Len(emitted) < MaxScripts
    /\ emitted' = Append(emitted, [src |-> src, js |-> loadAndRunTmpl])
    /\ UNCHANGED << domFrame, evaluated, head, ran >>

\* the page runs the next script it was sent
EvalScript ==
    /\ evaluated < Len(emitted)
    /\ LET c == evaluated + 1
           st == RunFrom(1, emitted[c].js, c, emitted[c].src, [head |-> head, ran |-> ran])
       IN  /\ head' = st.head
           /\ ran' = st.ran
           /\ evaluated' = c
    /\ UNCHANGED << domFrame, emitted >>

\* a script element finishes loading: its onload handler, runJSFn of the call that
\* created it, runs
LoadEvent(i) ==
    /\ i \in DOMAIN head
    /\ ~head[i].loaded
    /\ head' = [head EXCEPT ![i].loaded = TRUE]
    /\ ran' = Append(ran, [call |-> head[i].onload, src |-> head[i].src, loaded |-> TRUE])
    /\ UNCHANGED << domFrame, emitted, evaluated >>

Closed(ch) == ch # 0 /\ closed[ch]

(* ------------------------------ Exec() --------------------------------- *)
\* `return err` inside Exec: the deferred done() runs next on the same goroutine.
ReturnFromExec(err) ==
    /\ execErr' = err
    /\ execPc' = "deferred"
    /\ dpc' = [dpc EXCEPT ![0] = "call"]

\* exec.isDone = false; exec.doneChan = make(chan struct{}); defer exec.done();
\* cmd := osexec.Command(...)
BeginExec ==
    /\ execNo' = execNo + 1
    /\ isDone' = FALSE
    /\ doneChan' = execNo + 1
    /\ execPc' = "stdoutPipe"
    /\ execErr' = "unset"
    /\ child' = "none" /\ exitStatus' = ""
    /\ written' = [s \in Streams |-> << >>]
    /\ pipeBuf' = [s \in Streams |-> << >>]
    /\ sunk' = [s \in Streams |-> << >>]
    /\ copier' = [s \in Streams |-> "none"]
    /\ copyErr' = [s \in Streams |-> FALSE]
    /\ pubErr' = [s \in Streams |-> << >>]
    /\ interruptId' = "zero"
    /\ dpc' = [dpc EXCEPT ![0] = "idle"]
    /\ log' = << >>
    /\ UNCHANGED << cfgVars, extVars, msgVars, inputVars, panicked, closed, muDone, fileVars, subscribed,
                    interrupted, nInterrupts, handler >>

ExecBegin ==
    /\ ~panicked
    /\ execPc = "configured"
    /\ BeginExec

\* a further Exec() on the Executor, once the previous call has returned
ExecAgain ==
    /\ ~panicked
    /\ execPc = "returned"
    /\ execNo < MaxExecs
    /\ BeginExec

\* exec.cmdStdout, err = cmd.StdoutPipe()
ExecStdoutPipe ==
    /\ ~panicked
    /\ execPc = "stdoutPipe"
    /\ \E ok \in BOOLEAN :
        IF ok
        THEN /\ cmdStdout' = "open"
             /\ execPc' = "stderrPipe"
             /\ UNCHANGED << execErr, dpc >>
        ELSE /\ cmdStdout' = "nil"
             /\ ReturnFromExec("stdout")
    /\ UNCHANGED << cfgVars, extVars, msgVars, inputVars, execNo, panicked, isDone, doneChan, closed, muDone,
                    cmdStderr, cmdStdin, childVars, streamVars, kernelVars, handler, log >>

\* exec.cmdStderr, err = cmd.StderrPipe()
ExecStderrPipe ==
    /\ ~panicked
    /\ execPc = "stderrPipe"
    /\ \E ok \in BOOLEAN :
        IF ok
        THEN /\ cmdStderr' = "open"
             /\ execPc' = "stdinPipe"
             /\ UNCHANGED << execErr, dpc >>
        ELSE /\ cmdStderr' = "nil"
             /\ ReturnFromExec("stderr")
    /\ UNCHANGED << cfgVars, extVars, msgVars, inputVars, execNo, panicked, isDone, doneChan, closed, muDone,
                    cmdStdout, cmdStdin, childVars, streamVars, kernelVars, handler, log >>

\* exec.cmdStdin, err = cmd.StdinPipe()
ExecStdinPipe ==
    /\ ~panicked
    /\ execPc = "stdinPipe"
    /\ \E ok \in BOOLEAN :
        IF ok
        THEN /\ cmdStdin' = "open"
             /\ execPc' = "streamers"
             /\ UNCHANGED << execErr, dpc >>
        ELSE /\ cmdStdin' = "nil"
             /\ ReturnFromExec("stdin")
    /\ UNCHANGED << cfgVars, extVars, msgVars, inputVars, execNo, panicked, isDone, doneChan, closed, muDone,
                    cmdStdout, cmdStderr, childVars, streamVars, kernelVars, handler, log >>

\* streamersWG.Add(2); go func() { io.Copy(stdoutWriter, cmdStdout) }(); go func() {...}();
\* if exec.millisecondsToInput > 0 { exec.handleJupyterInput() }, which ends with
\* go schedulePromptFn()
ExecStartStreamers ==
    /\ ~panicked
    /\ execPc = "streamers"
    /\ copier' = [s \in Streams |-> "copying"]
    /\ prompter' = IF millisecondsToInput > 0
                   THEN [prompter EXCEPT ![execNo] =
                            [IdlePrompter EXCEPT !.pc = "sleeping", !.exec = execNo]]
                   ELSE prompter
    /\ execPc' = "namedPipes"
    /\ UNCHANGED << cfgVars, extVars, msgVars, writer, stdinPipe, childRead, execNo, execErr,
                    panicked, doneVars, fileVars, childVars,
                    written, pipeBuf, sunk, copyErr, pubErr, kernelVars, handler, log >>

\* mutant: the comms handler is told of the start before the named pipes exist
ExecNamedPipesNotifyFirst ==
    /\ ~panicked
    /\ execPc = "namedPipes"
    /\ IF ~useNamedPipes
       THEN /\ execPc' = "cmdStart"
            /\ UNCHANGED << execErr, dpc, log >>
       ELSE \E ok \in BOOLEAN :
            IF ok
            THEN /\ log' = log \o (IF commsHandler THEN << "ProgramStart" >> ELSE << >>)
                           \o << "NamedPipes" >>
                 /\ execPc' = "cmdStart"
                 /\ UNCHANGED << execErr, dpc >>
            ELSE /\ ReturnFromExec("namedpipes")
                 /\ log' = log \o (IF commsHandler THEN << "ProgramStart" >> ELSE << >>)
    /\ UNCHANGED << cfgVars, extVars, msgVars, inputVars, execNo, panicked, isDone, doneChan, closed, muDone,
                    fileVars, childVars, streamVars, kernelVars, handler >>

\* if exec.useNamedPipes { handleNamedPipes(); commsHandler.ProgramStart(exec) }
ExecNamedPipes ==
    /\ ~panicked
    /\ execPc = "namedPipes"
    /\ IF ~useNamedPipes
       THEN /\ execPc' = "cmdStart"
            /\ UNCHANGED << execErr, dpc, log >>
       ELSE \E ok \in BOOLEAN :
            IF ok
            THEN /\ log' = log \o << "NamedPipes" >>
                           \o (IF commsHandler THEN << "ProgramStart" >> ELSE << >>)
                 /\ execPc' = "cmdStart"
                 /\ UNCHANGED << execErr, dpc >>
            ELSE /\ ReturnFromExec("namedpipes")
                 /\ UNCHANGED log
    /\ UNCHANGED << cfgVars, extVars, msgVars, inputVars, execNo, panicked, isDone, doneChan, closed, muDone,
                    fileVars, childVars, streamVars, kernelVars, handler >>

\* if err := cmd.Start(); err != nil { return ... }
ExecCmdStart ==
    /\ ~panicked
    /\ execPc = "cmdStart"
    /\ \E ok \in BOOLEAN :
        IF ok
        THEN /\ child' = "running"
             /\ log' = Append(log, "Start")
             /\ execPc' = "subscribe"
             /\ UNCHANGED << execErr, dpc >>
        ELSE /\ ReturnFromExec("start")
             /\ UNCHANGED << child, log >>
    /\ UNCHANGED << cfgVars, extVars, msgVars, inputVars, execNo, panicked, isDone, doneChan, closed, muDone,
                    fileVars, exitStatus, streamVars, kernelVars, handler >>

\* Kernel().SubscribeInterrupt(func...): the callback is registered ...
ExecSubscribe ==
    /\ ~panicked
    /\ execPc = "subscribe"
    /\ subscribed' = TRUE
    /\ execPc' = "assignId"
    /\ UNCHANGED << cfgVars, extVars, msgVars, inputVars, execNo, execErr, panicked, doneVars, fileVars, childVars,
                    streamVars, interruptId, interrupted, nInterrupts, handler, log >>

\* ... and only then is the returned id stored: interruptId = <result>;
\* if exec.stdinContent != nil { exec.handleStaticInput() }, which starts the goroutine
\* that writes the content and closes cmdStdin
ExecAssignId ==
    /\ ~panicked
    /\ execPc = "assignId"
    /\ interruptId' = "id"
    /\ writer' = IF stdinContent # << >>
                 THEN [writer EXCEPT ![0] =
                          [IdleWriter EXCEPT !.pc = "writing", !.data = stdinContent]]
                 ELSE writer
    /\ execPc' = "wgWait"
    /\ UNCHANGED << cfgVars, extVars, msgVars, prompter, stdinPipe, childRead, execNo, execErr,
                    panicked, doneVars, fileVars, childVars,
                    streamVars, subscribed, interrupted, nInterrupts, handler, log >>

\* mutant: Exec does not wait for the stream copies
ExecWaitStreamersNoWait ==
    /\ ~panicked
    /\ execPc = "wgWait"
    /\ execPc' = "cmdWait"
    /\ UNCHANGED << cfgVars, extVars, msgVars, inputVars, execNo, execErr, panicked, doneVars, fileVars, childVars,
                    streamVars, kernelVars, handler, log >>

\* streamersWG.Wait()
ExecWaitStreamers ==
    /\ ~panicked
    /\ execPc = "wgWait"
    /\ \A s \in Streams : copier[s] = "done"
    /\ execPc' = "cmdWait"
    /\ UNCHANGED << cfgVars, extVars, msgVars, inputVars, execNo, execErr, panicked, doneVars, fileVars, childVars,
                    streamVars, kernelVars, handler, log >>

\* mutant: the error of cmd.Wait() is returned to the caller
ExecCmdWaitReturnsErr ==
    /\ ~panicked
    /\ execPc = "cmdWait"
    /\ child = "exited"
    /\ child' = "reaped"
    /\ cmdStdout' = "closed" /\ cmdStderr' = "closed" /\ cmdStdin' = "closed"
    /\ IF exitStatus # "ok"
       THEN ReturnFromExec("exit")
       ELSE execPc' = "unsubscribe" /\ UNCHANGED << execErr, dpc >>
    /\ UNCHANGED << cfgVars, extVars, msgVars, inputVars, execNo, panicked, isDone, doneChan, closed, muDone,
                    exitStatus, streamVars, kernelVars, handler, log >>

\* errMsg := err.Error() + "\n"; if Interrupted.Load() { errMsg = "^C\n" + errMsg }
ErrMsg(err, isInterrupted) ==
    (IF isInterrupted THEN << "^C\n" >> ELSE << >>) \o << err, "\n" >>

\* kernel.PublishWriteStream(msg, stream, data): msg.Publish("stream", {name, text})
PublishWriteStream(r, stream, data) == Send("iopub", "stream", r, << stream >> \o data)

\* mutant: the interrupt marker is put in front of every exit error
ExecCmdWaitAlwaysMarks ==
    /\ ~panicked
    /\ execPc = "cmdWait"
    /\ child = "exited"
    /\ child' = "reaped"
    /\ cmdStdout' = "closed" /\ cmdStderr' = "closed" /\ cmdStdin' = "closed"
    /\ sent' = IF exitStatus # "ok"
               THEN PublishWriteStream(ExecMsg, "stderr", ErrMsg(exitStatus, TRUE))
               ELSE sent
    /\ execPc' = "unsubscribe"
    /\ UNCHANGED << cfgVars, extVars, stdinMsg, stdinFn, KnownBlockIds, task, invoked, inputVars,
                    execNo, execErr, panicked, doneVars, exitStatus,
                    streamVars, kernelVars, handler, log >>

\* cmd.Wait(): returns once the child has exited, and closes the parent's pipe ends;
\* its error, if any, is published on the stderr stream
ExecCmdWait ==
    /\ ~panicked
    /\ execPc = "cmdWait"
    /\ child = "exited"
    /\ child' = "reaped"
    /\ cmdStdout' = "closed" /\ cmdStderr' = "closed" /\ cmdStdin' = "closed"
    /\ sent' = IF exitStatus # "ok"
               THEN PublishWriteStream(ExecMsg, "stderr", ErrMsg(exitStatus, interrupted))
               ELSE sent
    /\ execPc' = "unsubscribe"
    /\ UNCHANGED << cfgVars, extVars, stdinMsg, stdinFn, KnownBlockIds, task, invoked, inputVars,
                    execNo, execErr, panicked, doneVars, exitStatus,
                    streamVars, kernelVars, handler, log >>

\* mutant: Exec returns without removing its subscription
ExecUnsubscribeSkips ==
    /\ ~panicked
    /\ execPc = "unsubscribe"
    /\ execPc' = "return"
    /\ UNCHANGED << cfgVars, extVars, msgVars, inputVars, execNo, execErr, panicked, doneVars, fileVars, childVars,
                    streamVars, kernelVars, handler, log >>

\* exec.Msg.Kernel().UnsubscribeInterrupt(interruptId)
ExecUnsubscribe ==
    /\ ~panicked
    /\ execPc = "unsubscribe"
    /\ subscribed' = FALSE
    /\ execPc' = "return"
    /\ UNCHANGED << cfgVars, extVars, msgVars, inputVars, execNo, execErr, panicked, doneVars, fileVars, childVars,
                    streamVars, interruptId, interrupted, nInterrupts, handler, log >>

\* return nil
ExecReturn ==
    /\ ~panicked
    /\ execPc = "return"
    /\ ReturnFromExec("nil")
    /\ UNCHANGED << cfgVars, extVars, msgVars, inputVars, execNo, panicked, isDone, doneChan, closed, muDone,
                    fileVars, childVars, streamVars, kernelVars, handler, log >>

(* ---------------------- Message.CancelInput --------------------------- *)
\* mutant: CancelInput withdraws the pending registration
CancelInputClears ==
    /\ stdinMsg' = 0
    /\ stdinFn' = 0
    /\ UNCHANGED sent

\* m.CancelInput(): a placeholder, it only logs and returns nil
CancelInput == UNCHANGED << sent, stdinMsg, stdinFn >>

(* ------------------------------ done() --------------------------------- *)
doneFrame == << cfgVars, extVars, msgVars, inputVars, execNo, execErr, doneChan, childVars, streamVars, kernelVars >>

\* the next statement of done() for caller c
DoneStep(c, next) ==
    /\ dpc' = [dpc EXCEPT ![c] = next]
    /\ UNCHANGED << panicked, muDone, execPc >>

\* a run-time panic inside done(): the deferred Unlock runs, then the panic unwinds
\* the goroutine and, unrecovered, ends the program
DonePanics(c) ==
    /\ panicked' = TRUE
    /\ muDone' = -1
    /\ dpc' = [dpc EXCEPT ![c] = "panicked"]
    /\ execPc' = IF c = 0 THEN "panicked" ELSE execPc

\* mutant: the isDone test is missing
DoneEnterNoCheck(c) ==
    /\ ~panicked
    /\ dpc[c] = "call"
    /\ muDone = -1
    /\ muDone' = c
    /\ isDone' = TRUE
    /\ dpc' = [dpc EXCEPT ![c] = "cancelInput"]
    /\ UNCHANGED << doneFrame, closed, fileVars, log, handler, panicked, execPc >>

\* exec.muDone.Lock(); defer exec.muDone.Unlock(); if exec.isDone { return }; exec.isDone = true
DoneEnter(c) ==
    /\ ~panicked
    /\ dpc[c] = "call"
    /\ muDone = -1
    /\ muDone' = c
    /\ IF isDone
       THEN /\ dpc' = [dpc EXCEPT ![c] = "unlock"]
            /\ UNCHANGED isDone
       ELSE /\ isDone' = TRUE
            /\ dpc' = [dpc EXCEPT ![c] = "cancelInput"]
    /\ UNCHANGED << doneFrame, closed, fileVars, log, handler, panicked, execPc >>

\* if exec.millisecondsToInput > 0 { _ = exec.Msg.CancelInput() }
DoneCancelInput(c) ==
    /\ ~panicked
    /\ dpc[c] = "cancelInput"
    /\ muDone = c
    /\ log' = IF millisecondsToInput > 0 THEN Append(log, "CancelInput") ELSE log
    /\ IF millisecondsToInput > 0 THEN CancelInput ELSE UNCHANGED << sent, stdinMsg, stdinFn >>
    /\ DoneStep(c, "closeStdin")
    /\ UNCHANGED << cfgVars, extVars, KnownBlockIds, task, invoked, inputVars, execNo, execErr,
                    doneChan, childVars, streamVars, kernelVars,
                    isDone, closed, fileVars, handler >>

\* mutant: the completion signal is never fired
DoneCloseStdinSkipChan(c) ==
    /\ ~panicked
    /\ dpc[c] = "closeStdin"
    /\ muDone = c
    /\ IF cmdStdin = "nil"
       THEN /\ DonePanics(c)
            /\ UNCHANGED << cmdStdin, log >>
       ELSE /\ cmdStdin' = "closed"
            /\ log' = Append(log, "CloseStdin")
            /\ DoneStep(c, "closeStderr")
    /\ UNCHANGED << doneFrame, isDone, closed, cmdStdout, cmdStderr, handler >>

\* _ = exec.cmdStdin.Close()
DoneCloseStdin(c) ==
    /\ ~panicked
    /\ dpc[c] = "closeStdin"
    /\ muDone = c
    /\ IF cmdStdin = "nil"
       THEN /\ DonePanics(c)
            /\ UNCHANGED << cmdStdin, log >>
       ELSE /\ cmdStdin' = "closed"
            /\ log' = Append(log, "CloseStdin")
            /\ DoneStep(c, "closeChan")
    /\ UNCHANGED << doneFrame, isDone, closed, cmdStdout, cmdStderr, handler >>

\* close(exec.doneChan): every goroutine parked on the channel is released
DoneCloseChan(c) ==
    /\ ~panicked
    /\ dpc[c] = "closeChan"
    /\ muDone = c
    /\ log' = Append(log, "CloseDoneChan")
    /\ IF doneChan = 0 \/ Closed(doneChan)
       THEN /\ DonePanics(c)
            /\ UNCHANGED << closed, handler >>
       ELSE /\ closed' = [closed EXCEPT ![doneChan] = TRUE]
            /\ handler' = [h \in Handlers |->
                              IF handler[h].pc = "parked" /\ handler[h].chan = doneChan
                              THEN [handler[h] EXCEPT !.pc = "end", !.branch = "done"]
                              ELSE handler[h]]
            /\ DoneStep(c, "closeStderr")
    /\ UNCHANGED << doneFrame, isDone, fileVars >>

\* _ = exec.cmdStderr.Close()
DoneCloseStderr(c) ==
    /\ ~panicked
    /\ dpc[c] = "closeStderr"
    /\ muDone = c
    /\ IF cmdStderr = "nil"
       THEN /\ DonePanics(c)
            /\ UNCHANGED << cmdStderr, log >>
       ELSE /\ cmdStderr' = "closed"
            /\ log' = Append(log, "CloseStderr")
            /\ DoneStep(c, "closeStdout")
    /\ UNCHANGED << doneFrame, isDone, closed, cmdStdout, cmdStdin, handler >>

\* _ = exec.cmdStdout.Close()
DoneCloseStdout(c) ==
    /\ ~panicked
    /\ dpc[c] = "closeStdout"
    /\ muDone = c
    /\ IF cmdStdout = "nil"
       THEN /\ DonePanics(c)
            /\ UNCHANGED << cmdStdout, log >>
       ELSE /\ cmdStdout' = "closed"
            /\ log' = Append(log, "CloseStdout")
            /\ DoneStep(c, "notify")
    /\ UNCHANGED << doneFrame, isDone, closed, cmdStderr, cmdStdin, handler >>

\* if exec.useNamedPipes && exec.commsHandler != nil { exec.commsHandler.ProgramFinished() }
DoneNotify(c) ==
    /\ ~panicked
    /\ dpc[c] = "notify"
    /\ muDone = c
    /\ log' = IF useNamedPipes /\ commsHandler THEN Append(log, "ProgramFinished") ELSE log
    /\ DoneStep(c, "unlock")
    /\ UNCHANGED << doneFrame, isDone, closed, fileVars, handler >>

\* mutant: the flag is cleared again when done() leaves
DoneUnlockClearsFlag(c) ==
    /\ ~panicked
    /\ dpc[c] = "unlock"
    /\ muDone = c
    /\ muDone' = -1
    /\ isDone' = FALSE
    /\ dpc' = [dpc EXCEPT ![c] = "returned"]
    /\ execPc' = IF c = 0 THEN "returned" ELSE execPc
    /\ UNCHANGED << doneFrame, closed, fileVars, log, handler, panicked >>

\* the deferred exec.muDone.Unlock(), and done() returns; for the deferred call of
\* Exec this is where Exec returns to its caller
DoneUnlock(c) ==
    /\ ~panicked
    /\ dpc[c] = "unlock"
    /\ muDone = c
    /\ muDone' = -1
    /\ dpc' = [dpc EXCEPT ![c] = "returned"]
    /\ execPc' = IF c = 0 THEN "returned" ELSE execPc
    /\ UNCHANGED << doneFrame, isDone, closed, fileVars, log, handler, panicked >>

\* a second source of completion calling done() while the child runs
TriggerDone(c) ==
    /\ ~panicked
    /\ c \in ExtraCallers
    /\ dpc[c] = "idle"
    /\ execPc \in {"subscribe", "assignId", "wgWait", "cmdWait", "unsubscribe", "return",
                   "deferred"}
    /\ dpc' = [dpc EXCEPT ![c] = "call"]
    /\ UNCHANGED << doneFrame, isDone, closed, muDone, fileVars, log, handler, panicked,
                    execPc >>

(* ------------------- the child and the stream copies ------------------- *)
\* the Executor field holding the read end of stream s
HandleOf(s) == IF s = "stdout" THEN cmdStdout ELSE cmdStderr

\* the write end of the pipes is closed: the child has exited, or cmd.Start failed
\* and closed the child's side of the descriptors
WriteEndClosed == child \in {"exited", "reaped"} \/ execErr = "start"

\* the child writes its next chunk to stdout or stderr
ChildWrite(s) ==
    /\ ~panicked
    /\ child = "running"
    /\ HandleOf(s) = "open"
    /\ Len(written[s]) < MaxOut
    /\ written' = [written EXCEPT ![s] = Append(@, Len(@) + 1)]
    /\ pipeBuf' = [pipeBuf EXCEPT ![s] = Append(@, Len(written[s]) + 1)]
    /\ UNCHANGED << cfgVars, extVars, msgVars, inputVars, execVars, panicked, doneVars, fileVars, childVars, sunk,
                    copier, copyErr, pubErr, kernelVars, handler, log >>

\* the child exits on its own, with or without an error status
ChildExit ==
    /\ ~panicked
    /\ child = "running"
    /\ child' = "exited"
    /\ exitStatus' \in {"ok", "exit status 1"}
    /\ UNCHANGED << cfgVars, extVars, msgVars, inputVars, execVars, panicked, doneVars, fileVars, streamVars,
                    kernelVars, handler, log >>

\* NewComposed, then RunLocked(sendMessage) on a socket: the envelope is sent and the
\* call goes on ("ok"), NewComposed fails and nothing is sent ("composeErr"), or
\* sendMessage is handed the envelope and returns an error ("sendErr")
SendOutcomes == {"ok", "composeErr", "sendErr"}

\* what a Write of a sink returns
WriteOk == [n |-> "all", err |-> "nil"]
WriteFailed == [n |-> "none", err |-> "err"]

\* mutant: the default sink returns the error of the publication
WriteReturnsPublishErr(outcome) == IF outcome = "ok" THEN WriteOk ELSE WriteFailed

\* (w *jupyterStreamWriter) Write(p): the error of PublishWriteStream is logged and
\* len(p), nil is returned whatever it was
Write(outcome) == WriteOk

\* the Write of a writer given with WithStdout / WithStderr: it may fail
CustomWrite(outcome) == IF outcome = "ok" THEN WriteOk ELSE WriteFailed

\* how a Write can go: a caller's writer works or fails; the default sink publishes,
\* and the publication goes as any other, failing at most MaxPubErrs times per Exec
WriteOutcomes ==
    IF customSink THEN {"ok", "err"}
    ELSE IF Len(pubErr["stdout"]) + Len(pubErr["stderr"]) < MaxPubErrs THEN SendOutcomes
    ELSE {"ok"}

\* io.Copy(writer, reader): one Read of what is in the pipe, then one Write to the sink,
\* which for the default sink publishes the chunk on the stream; a Write that returns
\* an error ends the copy
CopyChunk(s) ==
    /\ ~panicked
    /\ copier[s] = "copying"
    /\ HandleOf(s) = "open"
    /\ pipeBuf[s] # << >>
    /\ pipeBuf' = [pipeBuf EXCEPT ![s] = Tail(@)]
    /\ \E outcome \in WriteOutcomes :
        LET chunk == Head(pipeBuf[s])
            res == IF customSink THEN CustomWrite(outcome) ELSE Write(outcome)
        IN  /\ sent' = IF customSink \/ outcome = "composeErr" THEN sent
                       ELSE PublishWriteStream(ExecMsg, s, << ToString(chunk) >>)
            /\ pubErr' = IF ~customSink /\ outcome # "ok"
                         THEN [pubErr EXCEPT ![s] = Append(@, chunk)]
                         ELSE pubErr
            /\ IF res.err = "nil"
               THEN /\ sunk' = [sunk EXCEPT ![s] = Append(@, chunk)]
                    /\ UNCHANGED << copier, copyErr >>
               ELSE /\ copier' = [copier EXCEPT ![s] = "done"]
                    /\ copyErr' = [copyErr EXCEPT ![s] = TRUE]
                    /\ UNCHANGED sunk
    /\ UNCHANGED << cfgVars, extVars, stdinMsg, stdinFn, KnownBlockIds, task, invoked, inputVars,
                    execVars, panicked, doneVars, fileVars, childVars, written,
                    kernelVars, handler, log >>

\* io.Copy returns: end of stream, or a Read error because the read end was closed;
\* then the deferred streamersWG.Done()
CopyEnd(s) ==
    /\ ~panicked
    /\ copier[s] = "copying"
    /\ \/ /\ HandleOf(s) # "open"
          /\ copyErr' = [copyErr EXCEPT ![s] = TRUE]
       \/ /\ HandleOf(s) = "open"
          /\ pipeBuf[s] = << >>
          /\ WriteEndClosed
          /\ UNCHANGED copyErr
    /\ copier' = [copier EXCEPT ![s] = "done"]
    /\ UNCHANGED << cfgVars, extVars, msgVars, inputVars, execVars, panicked, doneVars, fileVars, childVars, written,
                    pipeBuf, sunk, pubErr, kernelVars, handler, log >>

(* ----------------------- kernel interrupt requests --------------------- *)
\* the kernel receives an interrupt request: it sets Interrupted and invokes every
\* subscribed callback, each in its own goroutine
InterruptRequest ==
    /\ ~panicked
    /\ nInterrupts < MaxInterrupts
    /\ nInterrupts' = nInterrupts + 1
    /\ interrupted' = TRUE
    /\ handler' = IF subscribed
                  THEN [handler EXCEPT ![nInterrupts + 1] =
                           [IdleHandler EXCEPT !.pc = "signal", !.exec = execNo]]
                  ELSE handler
    /\ UNCHANGED << cfgVars, extVars, msgVars, inputVars, execVars, panicked, doneVars, fileVars, childVars,
                    streamVars, subscribed, interruptId, log >>

(* ------------------------ the interrupt callback ----------------------- *)
\* the callback's cmd is the one of the Exec call that subscribed it
OwnChildRunning(h) == handler[h].exec = execNo /\ child = "running"

handlerFrame == << cfgVars, extVars, msgVars, inputVars, execVars, panicked, doneVars, fileVars, streamVars,
                   interruptId, interrupted, nInterrupts, log >>

\* err := cmd.Process.Signal(os.Interrupt): the child dies of it or ignores it
HandlerSignal(h) ==
    /\ ~panicked
    /\ handler[h].pc = "signal"
    /\ handler' = [handler EXCEPT ![h].pc = "unsub", ![h].sigint = TRUE]
    /\ IF OwnChildRunning(h)
       THEN \E dies \in BOOLEAN :
                /\ child' = IF dies THEN "exited" ELSE child
                /\ exitStatus' = IF dies THEN "signal: interrupt" ELSE exitStatus
       ELSE UNCHANGED childVars
    /\ UNCHANGED << handlerFrame, subscribed >>

\* exec.Msg.Kernel().UnsubscribeInterrupt(interruptId): interruptId is the variable
\* of Exec captured by the closure, read here without synchronisation; while it is
\* still the zero value no subscription is removed
HandlerUnsubscribe(h) ==
    /\ ~panicked
    /\ handler[h].pc = "unsub"
    /\ LET id == IF handler[h].exec = execNo THEN interruptId ELSE "id"
       IN  /\ handler' = [handler EXCEPT ![h].pc = "select", ![h].sawId = id]
           /\ subscribed' = IF handler[h].exec = execNo /\ id = "id"
                            THEN FALSE ELSE subscribed
    /\ UNCHANGED << handlerFrame, childVars >>

\* mutant: the select has no completion case, the callback only sleeps
HandlerSelectNoDone(h) ==
    /\ ~panicked
    /\ handler[h].pc = "select"
    /\ handler' = [handler EXCEPT ![h].pc = "parked", ![h].chan = 0]
    /\ UNCHANGED << handlerFrame, childVars, subscribed >>

\* select { case <-exec.doneChan: ...; case <-time.After(WaitToKill): ... } is entered:
\* the timer starts; a closed doneChan is taken at once, otherwise the goroutine parks
HandlerSelect(h) ==
    /\ ~panicked
    /\ handler[h].pc = "select"
    /\ handler' = IF Closed(doneChan)
                  THEN [handler EXCEPT ![h].pc = "end", ![h].chan = doneChan,
                                       ![h].branch = "done"]
                  ELSE [handler EXCEPT ![h].pc = "parked", ![h].chan = doneChan]
    /\ UNCHANGED << handlerFrame, childVars, subscribed >>

\* cmd.Process.Signal(syscall.SIGKILL) by callback h
Kill(h) ==
    /\ handler' = [handler EXCEPT ![h].pc = "end", ![h].branch = "timeout",
                                  ![h].sigkill = TRUE,
                                  ![h].doneFirst = Closed(handler[h].exec)]
    /\ IF OwnChildRunning(h)
       THEN child' = "exited" /\ exitStatus' = "signal: killed"
       ELSE UNCHANGED childVars

\* mutant: the timer fires without waiting
HandlerTimeoutAtOnce(h) ==
    /\ ~panicked
    /\ handler[h].pc = "parked"
    /\ Kill(h)
    /\ UNCHANGED << handlerFrame, subscribed >>

\* case <-time.After(WaitToKill): the timer fires while the goroutine is still parked,
\* and the branch runs: err = cmd.Process.Signal(syscall.SIGKILL)
HandlerTimeout(h) ==
    /\ ~panicked
    /\ handler[h].pc = "parked"
    /\ handler[h].waited >= WaitToKill
    /\ Kill(h)
    /\ UNCHANGED << handlerFrame, subscribed >>

(* -------------------------------- time --------------------------------- *)
\* a second passes for every callback parked in its select; time is observed only
\* through these timers, so it is advanced only while one of them is still running
Tick ==
    /\ ~panicked
    /\ \E h \in Handlers : handler[h].pc = "parked" /\ handler[h].waited < WaitToKill
    /\ handler' = [h \in Handlers |->
                      IF handler[h].pc = "parked" /\ handler[h].waited < WaitToKill
                      THEN [handler[h] EXCEPT !.waited = @ + 1]
                      ELSE handler[h]]
    /\ UNCHANGED << cfgVars, extVars, msgVars, inputVars, execVars, panicked, doneVars, fileVars, childVars,
                    streamVars, kernelVars, log >>

(* ----------------------- the kernel's message API ---------------------- *)
\* what the message API leaves alone: the Executor and its goroutines
apiFrame == << cfgVars, extVars, execVars, doneVars, fileVars, childVars, streamVars, kernelVars,
               handler, inputVars, log >>

NumReturned == Cardinality({t \in Tasks : task[t].pc = "returned"})

\* display ids carried in Transient["display_id"]; 0: the key is missing, -1: the value
\* is not a string
DisplayIds == {1, 2}
NoDisplayId == 0
BadDisplayId == 0 - 1

\* a task can make a call (tasks are started in the order of their numbers)
CanCall(t) ==
    /\ ~panicked
    /\ task[t].pc = "idle"
    /\ IF t = 1 THEN TRUE ELSE task[t - 1].pc # "idle"

\* the task's record as it makes call op on the message of request r
Started(op, r, arg, msgType, pc) ==
    [IdleTask EXCEPT !.op = op, !.pc = pc, !.r = r, !.arg = arg, !.msgType = msgType,
                     !.began = NumReturned]

\* the task's record as its call returns
Return(tk, ret) == [tk EXCEPT !.pc = "returned", !.ret = ret, !.order = NumReturned + 1]

SentAt(outcome) == IF outcome = "composeErr" THEN 0 ELSE Len(sent) + 1
SendBy(tk, socket, content, outcome) ==
    sent' = IF outcome = "composeErr" THEN sent
            ELSE Send(socket, tk.msgType, tk.r, content)

\* m.Publish(msgType, content): an envelope on the IOPub socket
Publish(t) ==
    /\ CanCall(t)
    /\ \E r \in Requests, outcome \in SendOutcomes :
        LET tk == Started("Publish", r, 0, "stream", "send")
        IN  /\ SendBy(tk, "iopub", << "content" >>, outcome)
            /\ task' = [task EXCEPT ![t] =
                           [Return(tk, IF outcome = "ok" THEN "nil" ELSE "err")
                               EXCEPT !.sentAt = SentAt(outcome)]]
    /\ UNCHANGED << apiFrame, panicked, stdinMsg, stdinFn, KnownBlockIds, invoked >>

\* m.Reply(msgType, content): an envelope on the Shell socket
Reply(t) ==
    /\ CanCall(t)
    /\ \E r \in Requests, outcome \in SendOutcomes :
        LET tk == Started("Reply", r, 0, "execute_reply", "send")
        IN  /\ SendBy(tk, "shell", << "content" >>, outcome)
            /\ task' = [task EXCEPT ![t] =
                           [Return(tk, IF outcome = "ok" THEN "nil" ELSE "err")
                               EXCEPT !.sentAt = SentAt(outcome)]]
    /\ UNCHANGED << apiFrame, panicked, stdinMsg, stdinFn, KnownBlockIds, invoked >>

\* a task calls m.PromptInput(prompt, password, onInput) with its own callback
CallPromptInput(t) ==
    /\ CanCall(t)
    /\ \E r \in Requests :
           task' = [task EXCEPT ![t] = Started("PromptInput", r, t, "input_request", "send")]
    /\ UNCHANGED << apiFrame, panicked, sent, stdinMsg, stdinFn, KnownBlockIds, invoked >>

\* mutant: the callback is registered before the result of the send is looked at
PromptInputSendRegistersFirst(t) ==
    /\ ~panicked
    /\ task[t].op = "PromptInput"
    /\ task[t].pc = "send"
    /\ \E outcome \in SendOutcomes :
        /\ SendBy(task[t], "stdin", << "prompt", "password" >>, outcome)
        /\ task' = [task EXCEPT ![t] =
                       IF outcome = "ok"
                       THEN [@ EXCEPT !.pc = "setMsg", !.sentAt = SentAt(outcome)]
                       ELSE [Return(@, "err") EXCEPT !.sentAt = SentAt(outcome)]]
    /\ stdinMsg' = task[t].r
    /\ stdinFn' = task[t].arg
    /\ UNCHANGED << apiFrame, panicked, KnownBlockIds, invoked >>

\* inputRequest, err := NewComposed("input_request", m.Composed); ...; err = RunLocked(
\* sendMessage(socket, inputRequest)); an error of either returns before registering
PromptInputSend(t) ==
    /\ ~panicked
    /\ task[t].op = "PromptInput"
    /\ task[t].pc = "send"
    /\ \E outcome \in SendOutcomes :
        /\ SendBy(task[t], "stdin", << "prompt", "password" >>, outcome)
        /\ task' = [task EXCEPT ![t] =
                       IF outcome = "ok"
                       THEN [@ EXCEPT !.pc = "setMsg", !.sentAt = SentAt(outcome)]
                       ELSE [Return(@, "err") EXCEPT !.sentAt = SentAt(outcome)]]
    /\ UNCHANGED << apiFrame, panicked, stdinMsg, stdinFn, KnownBlockIds, invoked >>

\* m.kernel.stdinMsg = m
PromptInputSetMsg(t) ==
    /\ ~panicked
    /\ task[t].op = "PromptInput"
    /\ task[t].pc = "setMsg"
    /\ stdinMsg' = task[t].r
    /\ task' = [task EXCEPT ![t].pc = "setFn"]
    /\ UNCHANGED << apiFrame, panicked, sent, stdinFn, KnownBlockIds, invoked >>

\* mutant: a callback already registered is kept, the new one is dropped
PromptInputSetFnKeepsFirst(t) ==
    /\ ~panicked
    /\ task[t].op = "PromptInput"
    /\ task[t].pc = "setFn"
    /\ stdinFn' = IF stdinFn = 0 THEN task[t].arg ELSE stdinFn
    /\ task' = [task EXCEPT ![t] = Return(@, "nil")]
    /\ UNCHANGED << apiFrame, panicked, sent, stdinMsg, KnownBlockIds, invoked >>

\* m.kernel.stdinFn = onInput; return nil
PromptInputSetFn(t) ==
    /\ ~panicked
    /\ task[t].op = "PromptInput"
    /\ task[t].pc = "setFn"
    /\ stdinFn' = task[t].arg
    /\ task' = [task EXCEPT ![t] = Return(@, "nil")]
    /\ UNCHANGED << apiFrame, panicked, sent, stdinMsg, KnownBlockIds, invoked >>

\* a task calls m.DeliverInput() on an input_reply message received on the stdin channel
CallDeliverInput(t) ==
    /\ CanCall(t)
    /\ task' = [task EXCEPT ![t] = Started("DeliverInput", InputReply, 0, "none", "check")]
    /\ UNCHANGED << apiFrame, panicked, sent, stdinMsg, stdinFn, KnownBlockIds, invoked >>

\* if m.kernel.stdinMsg == nil { return nil }
DeliverInputCheck(t) ==
    /\ ~panicked
    /\ task[t].op = "DeliverInput"
    /\ task[t].pc = "check"
    /\ task' = [task EXCEPT ![t] =
                   IF stdinMsg = 0
                   THEN Return([@ EXCEPT !.checked = stdinMsg], "nil")
                   ELSE [@ EXCEPT !.checked = stdinMsg, !.pc = "readFn"]]
    /\ UNCHANGED << apiFrame, panicked, sent, stdinMsg, stdinFn, KnownBlockIds, invoked >>

\* m.kernel.stdinFn(...): the function value is read first ...
DeliverInputReadFn(t) ==
    /\ ~panicked
    /\ task[t].op = "DeliverInput"
    /\ task[t].pc = "readFn"
    /\ task' = [task EXCEPT ![t].seenFn = stdinFn, ![t].pc = "call"]
    /\ UNCHANGED << apiFrame, panicked, sent, stdinMsg, stdinFn, KnownBlockIds, invoked >>

\* mutant: the registration is cleared once the callback has been called
DeliverInputCallClears(t) ==
    /\ ~panicked
    /\ task[t].op = "DeliverInput"
    /\ task[t].pc = "call"
    /\ task[t].seenFn # 0
    /\ invoked' = Append(invoked, [fn |-> task[t].seenFn, original |-> stdinMsg,
                                   input |-> task[t].r, task |-> t])
    /\ stdinMsg' = 0
    /\ \E ret \in {"nil", "err"} :
           task' = [task EXCEPT ![t] = Return([@ EXCEPT !.seenMsg = stdinMsg], ret)]
    /\ UNCHANGED << apiFrame, panicked, sent, stdinFn, KnownBlockIds >>

\* ... then the argument m.kernel.stdinMsg, and the callback is called with it and m:
\* a nil function value panics; writeStdinFn runs the Executor's code; any other
\* callback returns nil or an error, which DeliverInput returns
DeliverInputCall(t) ==
    /\ ~panicked
    /\ task[t].op = "DeliverInput"
    /\ task[t].pc = "call"
    /\ IF task[t].seenFn = 0
       THEN /\ panicked' = TRUE
            /\ task' = [task EXCEPT ![t].seenMsg = stdinMsg, ![t].pc = "panicked"]
            /\ UNCHANGED invoked
       ELSE /\ invoked' = Append(invoked, [fn |-> task[t].seenFn, original |-> stdinMsg,
                                            input |-> task[t].r, task |-> t])
            /\ UNCHANGED panicked
            /\ IF task[t].seenFn = writeStdinFn
               THEN task' = [task EXCEPT ![t].seenMsg = stdinMsg, ![t].pc = "cbLock"]
               ELSE \E ret \in {"nil", "err"} :
                       task' = [task EXCEPT ![t] = Return([@ EXCEPT !.seenMsg = stdinMsg], ret)]
    /\ UNCHANGED << apiFrame, sent, stdinMsg, stdinFn, KnownBlockIds >>

\* mutant: the branch that is commented out in PublishData is live
PublishDataByParent(t) ==
    /\ CanCall(t)
    /\ \E r \in Requests \cup {0}, outcome \in SendOutcomes :
        LET ty == IF r # 0 /\ RequestType(r) = "execute_request"
                  THEN "execute_result" ELSE "display_data"
            tk == Started("PublishData", r, 0, IF r = 0 THEN "none" ELSE ty, "send")
        IN  IF r = 0
            THEN /\ outcome = "ok"
                 /\ task' = [task EXCEPT ![t] = Return(tk, "nil")]
                 /\ UNCHANGED sent
            ELSE /\ SendBy(tk, "iopub", << "data" >>, outcome)
                 /\ task' = [task EXCEPT ![t] =
                                [Return(tk, IF outcome = "ok" THEN "nil" ELSE "err")
                                    EXCEPT !.sentAt = SentAt(outcome)]]
    /\ UNCHANGED << apiFrame, panicked, stdinMsg, stdinFn, KnownBlockIds, invoked >>

\* PublishData(msg, data): return PublishDisplayData(msg, data), which returns nil for a
\* nil msg (r = 0) and else msg.Publish("display_data", ...)
PublishData(t) ==
    /\ CanCall(t)
    /\ \E r \in Requests \cup {0}, outcome \in SendOutcomes :
        LET tk == Started("PublishData", r, 0, IF r = 0 THEN "none" ELSE "display_data",
                          "send")
        IN  IF r = 0
            THEN /\ outcome = "ok"
                 /\ task' = [task EXCEPT ![t] = Return(tk, "nil")]
                 /\ UNCHANGED sent
            ELSE /\ SendBy(tk, "iopub", << "data" >>, outcome)
                 /\ task' = [task EXCEPT ![t] =
                                [Return(tk, IF outcome = "ok" THEN "nil" ELSE "err")
                                    EXCEPT !.sentAt = SentAt(outcome)]]
    /\ UNCHANGED << apiFrame, panicked, stdinMsg, stdinFn, KnownBlockIds, invoked >>

\* a task calls PublishUpdateDisplayData(msg, data) for the Executor's message (as the
\* reader of the named pipe does); without a string under
\* Transient["display_id"] it returns an error at once
CallPublishUpdateDisplayData(t) ==
    /\ CanCall(t)
    /\ \E id \in DisplayIds \cup {NoDisplayId, BadDisplayId} :
           task' = [task EXCEPT ![t] =
                       IF id \in DisplayIds
                       THEN Started("PublishUpdateDisplayData", ExecMsg, id,
                                    "display_data", "has")
                       ELSE Return(Started("PublishUpdateDisplayData", ExecMsg, id,
                                           "none", "has"), "err")]
    /\ UNCHANGED << apiFrame, panicked, sent, stdinMsg, stdinFn, KnownBlockIds, invoked >>

\* msgType := "display_data"; if kernel.KnownBlockIds.Has(displayId) { msgType =
\* "update_display_data" }
PublishUpdateHas(t) ==
    /\ ~panicked
    /\ task[t].op = "PublishUpdateDisplayData"
    /\ task[t].pc = "has"
    /\ task' = [task EXCEPT ![t] =
                   IF task[t].arg \in KnownBlockIds
                   THEN [@ EXCEPT !.msgType = "update_display_data", !.pc = "publish"]
                   ELSE [@ EXCEPT !.pc = "insert"]]
    /\ UNCHANGED << apiFrame, panicked, sent, stdinMsg, stdinFn, KnownBlockIds, invoked >>

\* mutant: a new display id is not remembered
PublishUpdateInsertForgets(t) ==
    /\ ~panicked
    /\ task[t].op = "PublishUpdateDisplayData"
    /\ task[t].pc = "insert"
    /\ task' = [task EXCEPT ![t].pc = "publish"]
    /\ UNCHANGED << apiFrame, panicked, sent, stdinMsg, stdinFn, KnownBlockIds, invoked >>

\* ... else { kernel.KnownBlockIds.Insert(displayId) }
PublishUpdateInsert(t) ==
    /\ ~panicked
    /\ task[t].op = "PublishUpdateDisplayData"
    /\ task[t].pc = "insert"
    /\ KnownBlockIds' = KnownBlockIds \cup {task[t].arg}
    /\ task' = [task EXCEPT ![t].pc = "publish"]
    /\ UNCHANGED << apiFrame, panicked, sent, stdinMsg, stdinFn, invoked >>

\* return msg.Publish(msgType, ...)
PublishUpdatePublish(t) ==
    /\ ~panicked
    /\ task[t].op = "PublishUpdateDisplayData"
    /\ task[t].pc = "publish"
    /\ \E outcome \in SendOutcomes :
        /\ SendBy(task[t], "iopub", << "display_id", task[t].arg >>, outcome)
        /\ task' = [task EXCEPT ![t] =
                       [Return(@, IF outcome = "ok" THEN "nil" ELSE "err")
                           EXCEPT !.sentAt = SentAt(outcome)]]
    /\ UNCHANGED << apiFrame, panicked, stdinMsg, stdinFn, KnownBlockIds, invoked >>

(* ------------------ input plumbing of the Executor --------------------- *)
\* what the input goroutines leave alone
plumbFrame == << cfgVars, extVars, execVars, panicked, isDone, doneChan, closed, dpc, cmdStdout,
                 cmdStderr, childVars, streamVars, kernelVars, handler, KnownBlockIds, log >>

\* holders of exec.muDone other than the callers of done()
PrompterOwner(p) == NumExtraDone + p
CallbackOwner(t) == NumExtraDone + MaxExecs + NumTasks + t
\* the goroutine running schedulePromptFn that writeStdinFn starts when called by task t
RearmedBy(t) == MaxExecs + t

\* value := content["value"].(string) + "\n" for the answer task t delivers, as the
\* chunks the pipe takes it in
Line(t) == << ToString(t), "\n" >>

\* the child's end of the stdin pipe is closed, as WriteEndClosed for its outputs
StdinReadEndClosed == WriteEndClosed

\* everything the child's stdin has been given, in order
StdinReceived == childRead \o stdinPipe

\* time.Sleep(time.Duration(exec.millisecondsToInput) * time.Millisecond) returns
PromptSleep(p) ==
    /\ ~panicked
    /\ prompter[p].pc = "sleeping"
    /\ prompter' = [prompter EXCEPT ![p].pc = "lock", ![p].slept = TRUE]
    /\ UNCHANGED << plumbFrame, muDone, cmdStdin, sent, stdinMsg, stdinFn, task, invoked,
                    writer, stdinPipe, childRead >>

\* mutant: the prompt is issued without looking at isDone
PromptLockNoCheck(p) ==
    /\ ~panicked
    /\ prompter[p].pc = "lock"
    /\ muDone = -1
    /\ muDone' = PrompterOwner(p)
    /\ prompter' = [prompter EXCEPT ![p].pc = "send"]
    /\ UNCHANGED << plumbFrame, cmdStdin, sent, stdinMsg, stdinFn, task, invoked,
                    writer, stdinPipe, childRead >>

\* exec.muDone.Lock(); if !exec.isDone { ... }
PromptLock(p) ==
    /\ ~panicked
    /\ prompter[p].pc = "lock"
    /\ muDone = -1
    /\ muDone' = PrompterOwner(p)
    /\ prompter' = [prompter EXCEPT ![p].pc = IF isDone THEN "unlock" ELSE "send"]
    /\ UNCHANGED << plumbFrame, cmdStdin, sent, stdinMsg, stdinFn, task, invoked,
                    writer, stdinPipe, childRead >>

\* _ = exec.Msg.PromptInput(" ", exec.inputPassword, writeStdinFn): the input_request
\* is built and sent; an error returns from PromptInput, and is ignored
PromptSend(p) ==
    /\ ~panicked
    /\ prompter[p].pc = "send"
    /\ \E outcome \in SendOutcomes :
        /\ sent' = IF outcome = "composeErr" THEN sent
                   ELSE Send("stdin", "input_request", ExecMsg, << " ", "plain" >>)
        /\ prompter' = [prompter EXCEPT ![p].pc = IF outcome = "ok" THEN "setMsg"
                                                  ELSE "unlock"]
    /\ UNCHANGED << plumbFrame, muDone, cmdStdin, stdinMsg, stdinFn, task, invoked,
                    writer, stdinPipe, childRead >>

\* ... m.kernel.stdinMsg = m
PromptSetMsg(p) ==
    /\ ~panicked
    /\ prompter[p].pc = "setMsg"
    /\ stdinMsg' = ExecMsg
    /\ prompter' = [prompter EXCEPT ![p].pc = "setFn"]
    /\ UNCHANGED << plumbFrame, muDone, cmdStdin, sent, stdinFn, task, invoked,
                    writer, stdinPipe, childRead >>

\* ... m.kernel.stdinFn = onInput; return nil
PromptSetFn(p) ==
    /\ ~panicked
    /\ prompter[p].pc = "setFn"
    /\ stdinFn' = writeStdinFn
    /\ prompter' = [prompter EXCEPT ![p].pc = "unlock", ![p].prompted = TRUE]
    /\ UNCHANGED << plumbFrame, muDone, cmdStdin, sent, stdinMsg, task, invoked,
                    writer, stdinPipe, childRead >>

\* exec.muDone.Unlock(), and schedulePromptFn returns
PromptUnlock(p) ==
    /\ ~panicked
    /\ prompter[p].pc = "unlock"
    /\ muDone = PrompterOwner(p)
    /\ muDone' = -1
    /\ prompter' = [prompter EXCEPT ![p].pc = "end"]
    /\ UNCHANGED << plumbFrame, cmdStdin, sent, stdinMsg, stdinFn, task, invoked,
                    writer, stdinPipe, childRead >>

\* mutant: writeStdinFn does not look at isDone
CallbackLockIgnoresDone(t) ==
    /\ ~panicked
    /\ task[t].pc = "cbLock"
    /\ muDone = -1
    /\ muDone' = CallbackOwner(t)
    /\ task' = [task EXCEPT ![t].pc = "cbUnlock", ![t].accepted = TRUE]
    /\ writer' = [writer EXCEPT ![t] =
                     [IdleWriter EXCEPT !.pc = "writing", !.data = Line(t)]]
    /\ prompter' = [prompter EXCEPT ![RearmedBy(t)] =
                       [IdlePrompter EXCEPT !.pc = "sleeping", !.exec = execNo]]
    /\ UNCHANGED << plumbFrame, cmdStdin, sent, stdinMsg, stdinFn, invoked, stdinPipe,
                    childRead >>

\* mutant: writeStdinFn writes the answer itself, before it returns
CallbackLockWritesInline(t) ==
    /\ ~panicked
    /\ task[t].pc = "cbLock"
    /\ muDone = -1
    /\ muDone' = CallbackOwner(t)
    /\ IF isDone
       THEN /\ task' = [task EXCEPT ![t].pc = "cbUnlock"]
            /\ UNCHANGED << stdinPipe, prompter >>
       ELSE /\ stdinPipe' = stdinPipe \o Line(t)
            /\ task' = [task EXCEPT ![t].pc = "cbUnlock", ![t].accepted = TRUE]
            /\ prompter' = [prompter EXCEPT ![RearmedBy(t)] =
                               [IdlePrompter EXCEPT !.pc = "sleeping", !.exec = execNo]]
    /\ UNCHANGED << plumbFrame, cmdStdin, sent, stdinMsg, stdinFn, invoked, writer,
                    childRead >>

\* writeStdinFn, called by DeliverInput: exec.muDone.Lock(); defer Unlock();
\* if exec.isDone { return nil }; go func() { cmdStdin.Write(value) }();
\* go schedulePromptFn(); return nil
CallbackLock(t) ==
    /\ ~panicked
    /\ task[t].pc = "cbLock"
    /\ muDone = -1
    /\ muDone' = CallbackOwner(t)
    /\ IF isDone
       THEN /\ task' = [task EXCEPT ![t].pc = "cbUnlock"]
            /\ UNCHANGED << writer, prompter >>
       ELSE /\ task' = [task EXCEPT ![t].pc = "cbUnlock", ![t].accepted = TRUE]
            /\ writer' = [writer EXCEPT ![t] =
                             [IdleWriter EXCEPT !.pc = "writing", !.data = Line(t)]]
            /\ prompter' = [prompter EXCEPT ![RearmedBy(t)] =
                               [IdlePrompter EXCEPT !.pc = "sleeping", !.exec = execNo]]
    /\ UNCHANGED << plumbFrame, cmdStdin, sent, stdinMsg, stdinFn, invoked, stdinPipe,
                    childRead >>

\* the deferred exec.muDone.Unlock(); writeStdinFn returns nil, and so does DeliverInput
CallbackUnlock(t) ==
    /\ ~panicked
    /\ task[t].pc = "cbUnlock"
    /\ muDone = CallbackOwner(t)
    /\ muDone' = -1
    /\ task' = [task EXCEPT ![t] = Return(@, "nil")]
    /\ UNCHANGED << plumbFrame, cmdStdin, sent, stdinMsg, stdinFn, invoked, prompter,
                    writer, stdinPipe, childRead >>

\* the writer's position once its Write has returned: only handleStaticInput closes
AfterWrite(w) == IF w = 0 THEN "close" ELSE "end"

\* exec.cmdStdin.Write(...): it fails when cmdStdin has been closed or the child's end
\* of the pipe is gone, it blocks while the pipe is full, and otherwise the pipe takes
\* the next chunk
WriterWrite(w) ==
    /\ ~panicked
    /\ writer[w].pc = "writing"
    /\ IF cmdStdin # "open" \/ StdinReadEndClosed
       THEN /\ writer' = [writer EXCEPT ![w].pc = AfterWrite(w), ![w].failed = TRUE]
            /\ UNCHANGED stdinPipe
       ELSE /\ Len(stdinPipe) < StdinCap
            /\ stdinPipe' = Append(stdinPipe, writer[w].data[writer[w].wrote + 1])
            /\ writer' = [writer EXCEPT
                             ![w].wrote = @ + 1,
                             ![w].pc = IF writer[w].wrote + 1 = Len(writer[w].data)
                                       THEN AfterWrite(w) ELSE "writing"]
    /\ UNCHANGED << plumbFrame, muDone, cmdStdin, sent, stdinMsg, stdinFn, task, invoked,
                    prompter, childRead >>

\* mutant: handleStaticInput leaves the child's stdin open
WriterCloseSkips(w) ==
    /\ ~panicked
    /\ writer[w].pc = "close"
    /\ writer' = [writer EXCEPT ![w].pc = "end"]
    /\ UNCHANGED << plumbFrame, muDone, cmdStdin, sent, stdinMsg, stdinFn, task, invoked,
                    prompter, stdinPipe, childRead >>

\* err = exec.cmdStdin.Close() in handleStaticInput, without the lock; closing a file
\* that is closed already is an error, which is logged
WriterClose(w) ==
    /\ ~panicked
    /\ writer[w].pc = "close"
    /\ cmdStdin' = "closed"
    /\ writer' = [writer EXCEPT ![w].pc = "end"]
    /\ UNCHANGED << plumbFrame, muDone, sent, stdinMsg, stdinFn, task, invoked,
                    prompter, stdinPipe, childRead >>

\* the child reads the next chunk from its stdin
ChildReadStdin ==
    /\ ~panicked
    /\ child = "running"
    /\ stdinPipe # << >>
    /\ childRead' = Append(childRead, Head(stdinPipe))
    /\ stdinPipe' = Tail(stdinPipe)
    /\ UNCHANGED << plumbFrame, muDone, cmdStdin, sent, stdinMsg, stdinFn, task, invoked,
                    prompter, writer >>

(* --------------------------- specifications ---------------------------- *)
Done(c) ==
    \/ DoneEnter(c)
    \/ DoneCancelInput(c)
    \/ DoneCloseStdin(c)
    \/ DoneCloseChan(c)
    \/ DoneCloseStderr(c)
    \/ DoneCloseStdout(c)
    \/ DoneNotify(c)
    \/ DoneUnlock(c)

Handler(h) ==
    \/ HandlerSignal(h)
    \/ HandlerUnsubscribe(h)
    \/ HandlerSelect(h)
    \/ HandlerTimeout(h)

\* Exec() from its first statement to the return of its deferred done(), the child's
\* exit and the end of the two stream copies
Lifecycle ==
    \/ ExecBegin
    \/ ExecStdoutPipe
    \/ ExecStderrPipe
    \/ ExecStdinPipe
    \/ ExecStartStreamers
    \/ ExecNamedPipes
    \/ ExecCmdStart
    \/ ExecSubscribe
    \/ ExecAssignId
    \/ ExecWaitStreamers
    \/ ExecCmdWait
    \/ ExecUnsubscribe
    \/ ExecReturn
    \/ Done(0)
    \/ ChildExit
    \/ \E s \in Streams : CopyEnd(s)

\* the child's output on its way to the sinks
Streaming ==
    \/ \E s \in Streams : ChildWrite(s)
    \/ \E s \in Streams : CopyChunk(s)

\* interrupt requests, the callbacks they start, and the clock the callbacks read
Interrupts ==
    \/ InterruptRequest
    \/ \E h \in Handlers : Handler(h)
    \/ Tick

\* other goroutines calling done() while the child runs
Triggers ==
    \/ \E c \in ExtraCallers : TriggerDone(c)
    \/ \E c \in ExtraCallers : Done(c)

\* calls of the kernel's message API by concurrent tasks
InputSlot(t) ==
    \/ CallPromptInput(t)
    \/ PromptInputSend(t)
    \/ PromptInputSetMsg(t)
    \/ PromptInputSetFn(t)
    \/ CallDeliverInput(t)
    \/ DeliverInputCheck(t)
    \/ DeliverInputReadFn(t)
    \/ DeliverInputCall(t)

UpdateDisplay(t) ==
    \/ CallPublishUpdateDisplayData(t)
    \/ PublishUpdateHas(t)
    \/ PublishUpdateInsert(t)
    \/ PublishUpdatePublish(t)

\* one Exec() call with the child's output streamed to the sinks
Next == Lifecycle \/ Streaming
Spec == Init /\ [][Next]_vars

\* the Executor as New() returns it, with no option set
InitPlain == Init /\ ~useNamedPipes /\ millisecondsToInput = -1 /\ ~customSink /\ stdinContent = << >>

\* one Exec() call with interrupt requests arriving from the front-end
NextInterrupt == Lifecycle \/ Interrupts
SpecInterrupt == InitPlain /\ [][NextInterrupt]_vars

\* an interrupt request that arrives while the child is running
InterruptWhileRunning == child = "running" /\ InterruptRequest

\* the steps of the goroutine that runs Exec() and its deferred done()
ExecSteps ==
    \/ ExecBegin
    \/ ExecStdoutPipe
    \/ ExecStderrPipe
    \/ ExecStdinPipe
    \/ ExecStartStreamers
    \/ ExecNamedPipes
    \/ ExecCmdStart
    \/ ExecSubscribe
    \/ ExecAssignId
    \/ ExecWaitStreamers
    \/ ExecCmdWait
    \/ ExecUnsubscribe
    \/ ExecReturn
    \/ Done(0)

\* one Exec() call with interrupts requested only while the child runs; every goroutine
\* that can run does run in the end and time passes, while the child exits by itself
\* or not and the front-end interrupts or not
NextTerminate ==
    \/ Lifecycle
    \/ InterruptWhileRunning
    \/ \E h \in Handlers : Handler(h)
    \/ Tick
Scheduling ==
    /\ WF_vars(ExecSteps)
    /\ \A s \in Streams : WF_vars(CopyEnd(s))
    /\ \A h \in Handlers : WF_vars(Handler(h))
    /\ WF_vars(Tick)
SpecTerminate == InitPlain /\ [][NextTerminate]_vars /\ Scheduling

\* one Exec() call with done() triggered concurrently from other goroutines
NextTriggers == Lifecycle \/ Triggers
SpecTriggers == Init /\ [][NextTriggers]_vars

\* Exec() called again on the same Executor after it returned
\* one goroutine running schedulePromptFn
Prompter(p) ==
    \/ PromptSleep(p)
    \/ PromptLock(p)
    \/ PromptSend(p)
    \/ PromptSetMsg(p)
    \/ PromptSetFn(p)
    \/ PromptUnlock(p)

\* an input_reply from the front-end on its way through DeliverInput and writeStdinFn
Answer(t) ==
    \/ CallDeliverInput(t)
    \/ DeliverInputCheck(t)
    \/ DeliverInputReadFn(t)
    \/ DeliverInputCall(t)
    \/ CallbackLock(t)
    \/ CallbackUnlock(t)

\* the goroutine of handleStaticInput, and the child reading what it wrote
StaticInputSteps ==
    \/ WriterWrite(0)
    \/ WriterClose(0)
    \/ ChildReadStdin

\* the prompts, the answers of the front-end, the goroutines writing the answers to the
\* child's stdin, and the child reading them
Interactive ==
    \/ \E p \in PrompterIds : Prompter(p)
    \/ \E t \in Answers : Answer(t)
    \/ \E t \in Answers : WriterWrite(t)
    \/ ChildReadStdin

\* one Exec() call of an Executor built WithStaticInput, default sinks, no named pipes
InitStatic == Init /\ ~useNamedPipes /\ ~customSink /\ stdinContent = StaticInput
NextStatic == Lifecycle \/ StaticInputSteps
SpecStatic == InitStatic /\ [][NextStatic]_vars

\* one Exec() call of an Executor built WithInputs, default sinks, no named pipes
InitInteractive == Init /\ ~useNamedPipes /\ ~customSink /\ millisecondsToInput > 0
NextInteractive == Lifecycle \/ Interactive
SpecInteractive == InitInteractive /\ [][NextInteractive]_vars

\* the same Executor with a front-end that sends NumReplies input_reply messages, asked
\* for or not; the goroutines writing the answers are left to run after the rest
Replies == 1..NumReplies
NextReplies ==
    \/ Lifecycle
    \/ \E p \in PrompterIds : Prompter(p)
    \/ \E t \in Replies : Answer(t)
SpecReplies == InitInteractive /\ [][NextReplies]_vars

\* one send through the message API, frame by frame
Sending(s) ==
    \/ ChannelCall(s)
    \/ RunLockedAcquire(s)
    \/ SendMultiFrame(s)
    \/ RunLockedRelease(s)

\* concurrent Publish, Reply and PromptInput calls as the sockets see them
NextSockets == \E s \in Senders : Sending(s)
SpecSockets == InitPlain /\ [][NextSockets]_vars

\* the comms handler producing widget updates and the pipe writer draining them
NextFifo == ProduceUpdate \/ ConsumeUpdate
SpecFifo == InitPlain /\ [][NextFifo]_vars

\* one envelope, any of Envelopes, signed with any of Keys, is encoded, perhaps changed
\* on the way, and decoded
InitWire ==
    /\ InitCore /\ InitSockets /\ InitFifo /\ InitGopls /\ InitDom
    /\ ~useNamedPipes /\ millisecondsToInput = -1 /\ ~customSink /\ stdinContent = << >>
    /\ codecIn \in Envelopes
    /\ codecKey \in Keys
    /\ codecFrames = << >>
    /\ codecTampered = 0
    /\ codecOut = NotDecoded
NextWire == DoEncode \/ Tamper \/ DoDecode
SpecWire == InitWire /\ [][NextWire]_vars

\* data published for requests of either type, or for no request
NextData == \E t \in Tasks : PublishData(t)
SpecData == InitPlain /\ [][NextData]_vars

\* the kernel's calls on the gopls client, one after the other
\* calls of LoadScriptModuleAndRun, and the page running what they emit
NextDom ==
    \/ \E src \in Srcs : LoadScriptModuleAndRun(src)
    \/ EvalScript
    \/ \E i \in DOMAIN head : LoadEvent(i)
SpecDom == InitPlain /\ [][NextDom]_vars

NextGopls == \E f \in Files : NotifyDidOpen(f) \/ CallDefinition(f) \/ CallHover(f)
SpecGopls == InitPlain /\ [][NextGopls]_vars

\* the message API alone, called by concurrent tasks; the Executor is not run:
\* the pending-input slot,
NextSlot == \E t \in Tasks : InputSlot(t)
SpecSlot == InitPlain /\ [][NextSlot]_vars

\* the publications,
NextPublish == \E t \in Tasks : UpdateDisplay(t)
SpecPublish == InitPlain /\ [][NextPublish]_vars

\* and every call that builds an envelope
Prompting(t) ==
    \/ CallPromptInput(t)
    \/ PromptInputSend(t)
    \/ PromptInputSetMsg(t)
    \/ PromptInputSetFn(t)

NextEnvelopes == \E t \in Tasks : Publish(t) \/ Reply(t) \/ Prompting(t)
SpecEnvelopes == InitPlain /\ [][NextEnvelopes]_vars

NextReuse == Lifecycle \/ ExecAgain
SpecReuse == Init /\ [][NextReuse]_vars

(* ------------------------------- claims -------------------------------- *)
Has(e) == \E i \in DOMAIN log : log[i] = e
Count(e) == Cardinality({i \in DOMAIN log : log[i] = e})
Pos(e) == CHOOSE i \in DOMAIN log : log[i] = e
Before(a, b) == Has(a) /\ Has(b) /\ Pos(a) < Pos(b)
IsPrefix(a, b) == Len(a) <= Len(b) /\ SubSeq(b, 1, Len(a)) = a

TeardownEvents == {"CancelInput", "CloseStdin", "CloseDoneChan", "CloseStderr",
                   "CloseStdout", "ProgramFinished"}
TeardownLog == SelectSeq(log, LAMBDA e : e \in TeardownEvents)
ExpectedTeardown ==
    (IF millisecondsToInput > 0 THEN << "CancelInput" >> ELSE << >>)
    \o << "CloseStdin", "CloseDoneChan", "CloseStderr", "CloseStdout" >>
    \o (IF useNamedPipes /\ commsHandler THEN << "ProgramFinished" >> ELSE << >>)
SetupErrors == {"stdout", "stderr", "stdin", "namedpipes", "start"}
ExecLeft == execPc \in {"deferred", "returned", "panicked"}

\* C1: however many goroutines call done() during one Exec, doneChan is closed at most
\* once and ProgramFinished is notified at most once; and as soon as any call of done()
\* has returned, doneChan has been closed exactly once and, with named pipes and a
\* comms handler, ProgramFinished has been notified exactly once.
C1_TeardownOnce ==
    /\ Count("CloseDoneChan") <= 1
    /\ Count("ProgramFinished") <= 1
    /\ (\E c \in Callers : dpc[c] = "returned") =>
           /\ Count("CloseDoneChan") = 1
           /\ closed[doneChan]
           /\ (useNamedPipes /\ commsHandler) => Count("ProgramFinished") = 1

\* two calls of done() have both returned, with a comms handler to notify
C1_Witness ==
    /\ dpc[0] = "returned"
    /\ \E c \in ExtraCallers : dpc[c] = "returned"
    /\ useNamedPipes /\ commsHandler
    /\ Count("ProgramFinished") = 1

\* C2: Exec returns an error only for a setup failure, and then the child was never
\* started; once the child was started Exec returns nil, whatever the child's exit
\* status and whether or not a stream copy ended with an I/O error.
C2_ErrorOnlyForSetup ==
    ExecLeft =>
        /\ execErr \in SetupErrors \cup {"nil"}
        /\ execErr \in SetupErrors => child = "none"
        /\ child # "none" => execErr = "nil"

\* Exec returned nil although the child failed and a stream copy ended with an error
C2_Witness ==
    /\ execPc = "returned"
    /\ execErr = "nil"
    /\ exitStatus = "exit status 1"
    /\ \E s \in Streams : copyErr[s]

\* C3 (as claimed): when a stdio pipe cannot be created, the deferred teardown runs to
\* completion and the error is returned: the call does not crash.
C3_PipeFailureTornDown ==
    execErr \in {"stdout", "stderr", "stdin"} => ~panicked

\* C4: SIGKILL is sent only by a callback that sent the interrupt signal first and then
\* waited WaitToKill in its select; and a callback that leaves its select while the
\* completion signal it waits on has not fired has sent SIGKILL.
C4_KillAfterWaitToKill ==
    \A h \in Handlers :
        /\ handler[h].sigkill => handler[h].sigint /\ handler[h].waited >= WaitToKill
        /\ (handler[h].pc = "end" /\ ~Closed(handler[h].chan)) => handler[h].sigkill

\* a child that ignored the interrupt signal was killed
C4_Witness ==
    \E h \in Handlers :
        /\ handler[h].sigkill
        /\ handler[h].waited = WaitToKill
        /\ exitStatus = "signal: killed"

\* C5: no callback sends SIGKILL when the completion signal of its execution fired
\* before its timer did, and none sends SIGKILL without having sent the interrupt
\* signal first.
C5_NoKillAfterDone ==
    \A h \in Handlers :
        /\ handler[h].sigkill => handler[h].sigint /\ ~handler[h].doneFirst
        /\ handler[h].branch = "done" => ~handler[h].sigkill /\ Closed(handler[h].chan)

\* a callback waited in its select, was released by the completion signal before
\* WaitToKill had elapsed, and sent no SIGKILL
C5_Witness ==
    \E h \in Handlers :
        /\ handler[h].pc = "end"
        /\ handler[h].branch = "done"
        /\ handler[h].waited > 0
        /\ handler[h].waited < WaitToKill
        /\ ~handler[h].sigkill

\* C6 (as claimed): once a callback has run its UnsubscribeInterrupt, no later interrupt
\* request starts the callback again.
C6_SingleFire ==
    [][(\E h \in Handlers : handler[h].pc \in {"select", "parked", "end"})
          => \A h \in Handlers : handler[h].pc = "idle" => handler'[h].pc = "idle"]_vars

\* C7 (as claimed): once isDone is true it never becomes false again, and the completion
\* signal is never re-created.
C7_DoneIsTerminal ==
    [][(isDone => isDone') /\ (doneChan # 0 => doneChan' = doneChan)]_vars

\* C7 (amended): isDone goes back to false, and a new completion signal is made, only
\* in the step that begins a further Exec call.
C7_DoneUntilNextExec ==
    [][((isDone /\ ~isDone') \/ doneChan' # doneChan) => execNo' = execNo + 1]_vars

\* a second Exec call runs on an Executor whose first execution was torn down
C7_Witness ==
    /\ execNo = 2
    /\ ~isDone
    /\ closed[1]
    /\ ~closed[2]

\* C8: what done() has done so far is always a prefix of: CancelInput (only with
\* interactive input), close stdin, close doneChan, close stderr, close stdout,
\* ProgramFinished (only with named pipes and a comms handler); it is all of it once
\* done() has returned; and done() holds muDone from its first step to its last.
C8_TeardownOrder ==
    /\ IsPrefix(TeardownLog, ExpectedTeardown)
    /\ dpc[0] = "returned" => TeardownLog = ExpectedTeardown
    /\ dpc[0] \in {"cancelInput", "closeStdin", "closeChan", "closeStderr", "closeStdout",
                   "notify", "unlock"} => muDone = 0

\* a teardown with all six steps has completed
C8_Witness ==
    /\ dpc[0] = "returned"
    /\ Len(TeardownLog) = 6

\* C9: with named pipes and a comms handler, ProgramStart is notified after the named
\* pipes are set up and before the child is started, and a started child was always
\* announced; ProgramFinished is notified only after doneChan and the three stdio
\* handles were closed.
C9_NotifyOrder ==
    /\ Has("ProgramStart") => Before("NamedPipes", "ProgramStart")
    /\ Has("ProgramStart") /\ Has("Start") => Before("ProgramStart", "Start")
    /\ (useNamedPipes /\ commsHandler /\ child # "none") => Has("ProgramStart")
    /\ Has("ProgramFinished") =>
           /\ Before("CloseDoneChan", "ProgramFinished")
           /\ Before("CloseStdin", "ProgramFinished")
           /\ Before("CloseStderr", "ProgramFinished")
           /\ Before("CloseStdout", "ProgramFinished")
           /\ closed[doneChan]
           /\ cmdStdin = "closed" /\ cmdStderr = "closed" /\ cmdStdout = "closed"

\* an execution whose start and finish were both notified
C9_Witness ==
    /\ Has("ProgramStart")
    /\ Has("ProgramFinished")
    /\ child = "reaped"

\* C10 (as claimed): when Exec returns, everything the child wrote to stdout and stderr
\* has been handed to the sinks.
C10_AllOutputDelivered ==
    ExecLeft => \A s \in Streams : sunk[s] = written[s]

\* C10 (amended): once the child was started, Exec does not return and teardown does
\* not start before both stream copies have finished and the child has been waited
\* for; a sink always holds a prefix, in the order written, of what the child wrote to
\* its stream, and holds all of it when Exec returns unless that copy ended with an
\* I/O error.
C10_OutputBeforeReturn ==
    /\ (child # "none" /\ (ExecLeft \/ isDone)) =>
           /\ \A s \in Streams : copier[s] = "done"
           /\ child = "reaped"
    /\ \A s \in Streams : IsPrefix(sunk[s], written[s])
    /\ ExecLeft => \A s \in Streams : ~copyErr[s] => sunk[s] = written[s]

\* Exec returned after the child wrote MaxOut chunks to each stream and all arrived
C10_Witness ==
    /\ execPc = "returned"
    /\ \A s \in Streams : Len(written[s]) = MaxOut /\ sunk[s] = written[s]

(* C11: a non-zero exit of the child is reported as exactly one publication on the
   stderr stream, whose text is the exit error followed by a newline, with "^C\n" in
   front exactly when the kernel's Interrupted flag is set as Exec publishes it; an
   exit with status zero publishes nothing of the kind. *)
StderrPublications ==
    SelectSeq(sent, LAMBDA e : e.socket = "iopub" /\ e.msg.Header.MsgType = "stream"
                               /\ Head(e.msg.Content) = "stderr")

C11_ExitErrorPublished ==
    [][ /\ execPc = "cmdWait" /\ execPc' = "unsubscribe" /\ exitStatus # "ok"
            => /\ Len(sent') = Len(sent) + 1
               /\ sent'[Len(sent')].socket = "iopub"
               /\ sent'[Len(sent')].msg.Header.MsgType = "stream"
               /\ sent'[Len(sent')].msg.Content =
                      IF interrupted THEN << "stderr", "^C\n", exitStatus, "\n" >>
                                     ELSE << "stderr", exitStatus, "\n" >>
        /\ execPc = "cmdWait" /\ execPc' = "unsubscribe" /\ exitStatus = "ok"
            => sent' = sent
        /\ execPc' # "unsubscribe" \/ execPc # "cmdWait" => sent' = sent ]_vars

C11_Witness ==
    /\ execPc = "returned"
    /\ exitStatus = "signal: interrupt"
    /\ Len(StderrPublications) = 1
    /\ StderrPublications[1].msg.Content = << "stderr", "^C\n", "signal: interrupt", "\n" >>

(* ------------------- claims about the message API ---------------------- *)
\* call a had returned when call b was made
Returned(a, b) == task[a].order # 0 /\ task[a].order <= task[b].began

CallsOf(op) == {t \in Tasks : task[t].op = op}
\* no PromptInput call overlaps call d
Clean(d) == \A p \in CallsOf("PromptInput") \ {d} : Returned(p, d) \/ Returned(d, p)
\* the PromptInput calls that registered before call d was made, and the last of them
Regs(d) == {p \in CallsOf("PromptInput") : task[p].ret = "nil" /\ Returned(p, d)}
LastReg(d) == CHOOSE p \in Regs(d) : \A q \in Regs(d) : task[q].order <= task[p].order
InvocationsBy(d) == {i \in 1..Len(invoked) : invoked[i].task = d}

(* C15: PromptInput sends an input_request on the stdin socket and then registers its
   callback in the one pending-input slot, overwriting what was there: a DeliverInput
   made after PromptInput calls (none overlapping another) calls the callback of the
   last of them only, with the message of the last of them, once. *)
C15_LastRegistrationWins ==
    /\ \A p \in CallsOf("PromptInput") :
          task[p].pc \in {"setMsg", "setFn"} \/ task[p].ret = "nil"
              => /\ task[p].sentAt # 0
                 /\ sent[task[p].sentAt].socket = "stdin"
                 /\ sent[task[p].sentAt].msg.Header.MsgType = "input_request"
    /\ \A i \in 1..Len(invoked) :
          LET d == invoked[i].task
          IN  Clean(d) /\ Regs(d) # {} /\ Clean(LastReg(d))
                  => /\ invoked[i].fn = task[LastReg(d)].arg
                     /\ invoked[i].original = task[LastReg(d)].r
                     /\ InvocationsBy(d) = {i}

C15_Witness ==
    \E p, q \in CallsOf("PromptInput"), i \in 1..Len(invoked) :
        /\ task[p].ret = "nil" /\ task[q].ret = "nil"
        /\ task[p].r # task[q].r
        /\ Returned(p, q) /\ Returned(q, invoked[i].task)
        /\ invoked[i].fn = q /\ invoked[i].original = task[q].r

(* C16: DeliverInput returns nil and does nothing else when the slot is empty;
   otherwise it calls the registered callback once, with the registered message and the
   message it was called on; no DeliverInput changes the slot (or sends anything), so
   a further DeliverInput calls the same callback again. *)
C16_DeliverInput ==
    /\ [](\A d \in CallsOf("DeliverInput") :
            /\ task[d].pc = "returned" /\ task[d].checked = 0
                   => task[d].ret = "nil" /\ InvocationsBy(d) = {}
            /\ \A i \in InvocationsBy(d) :
                   /\ InvocationsBy(d) = {i}
                   /\ invoked[i].input = task[d].r
                   /\ Clean(d) => invoked[i].original = task[d].checked
                   /\ Clean(d) /\ Regs(d) # {} /\ Clean(LastReg(d))
                          => invoked[i].fn = task[LastReg(d)].arg
            /\ task[d].pc = "returned" /\ task[d].checked # 0 => InvocationsBy(d) # {})
    /\ [][\A d \in Tasks :
             task'[d].op = "DeliverInput" /\ task'[d] # task[d]
                 => stdinMsg' = stdinMsg /\ stdinFn' = stdinFn /\ sent' = sent]_vars

C16_Witness ==
    \E d, e \in CallsOf("DeliverInput"), i, j \in 1..Len(invoked) :
        /\ d # e
        /\ task[d].pc = "returned" /\ task[e].pc = "returned"
        /\ invoked[i].task = d /\ invoked[j].task = e
        /\ invoked[i].fn = invoked[j].fn
        /\ stdinFn = invoked[i].fn

\* the PublishUpdateDisplayData calls that carry a display id, and those for one id
UpdateCalls == {t \in CallsOf("PublishUpdateDisplayData") : task[t].arg \in DisplayIds}
UpdateCallsFor(id) == {t \in UpdateCalls : task[t].arg = id}
\* the call has chosen its message type
Decided(t) == task[t].pc \in {"publish", "returned"}

(* C18: of PublishUpdateDisplayData calls made one after the other, the first for a
   display id chooses message type display_data and adds the id to the known set, every
   later one for that id chooses update_display_data, and the envelope a call sends has
   the type it chose; no id ever leaves the known set. *)
C18_CreateThenUpdate ==
    /\ [](\A d \in UpdateCalls :
            /\ (\E p \in UpdateCallsFor(task[d].arg) \ {d} : Returned(p, d)) /\ Decided(d)
                   => task[d].msgType = "update_display_data"
            /\ (\A p \in UpdateCallsFor(task[d].arg) \ {d} : Returned(d, p))
                   /\ task[d].pc = "returned"
                   => task[d].msgType = "display_data"
            /\ Decided(d) => task[d].arg \in KnownBlockIds
            /\ task[d].sentAt # 0
                   => /\ sent[task[d].sentAt].socket = "iopub"
                      /\ sent[task[d].sentAt].msg.Header.MsgType = task[d].msgType)
    /\ [][KnownBlockIds \subseteq KnownBlockIds']_vars

C18_Witness ==
    /\ \A t \in 1..3 : t \in UpdateCallsFor(1) /\ task[t].ret = "nil"
    /\ Returned(1, 2) /\ Returned(2, 3)
    /\ << sent[1].msg.Header.MsgType, sent[2].msg.Header.MsgType,
          sent[3].msg.Header.MsgType >>
           = << "display_data", "update_display_data", "update_display_data" >>

(* C19: the accesses to the known-display-id set are serialized, so that of the
   PublishUpdateDisplayData calls made concurrently for one display id not seen
   before, exactly one chooses display_data and the others update_display_data. *)
C19_OneCreatePerId ==
    \A id \in DisplayIds :
        Cardinality({t \in UpdateCallsFor(id) :
                        Decided(t) /\ task[t].msgType = "display_data"}) <= 1

(* C20: every envelope built by Publish, Reply or PromptInput for a request has the
   request's header as its parent header, the request's session id and username, and
   the message type that was asked for. *)
C20_EnvelopeFromParent ==
    /\ \A t \in Tasks :
          task[t].sentAt # 0
              => LET env == sent[task[t].sentAt].msg
                     parent == RequestHeader(task[t].r)
                 IN  /\ env.ParentHeader = parent
                     /\ env.Header.Session = parent.Session
                     /\ env.Header.Username = parent.Username
                     /\ env.Header.MsgType = task[t].msgType
                     /\ env.Header.MsgID # parent.MsgID
    /\ Len(sent) = Cardinality({t \in Tasks : task[t].sentAt # 0})

C20_Witness ==
    \E a \in CallsOf("Publish"), b \in CallsOf("Reply"), c \in CallsOf("PromptInput") :
        /\ task[a].sentAt # 0 /\ task[b].sentAt # 0 /\ task[c].sentAt # 0
        /\ task[a].r # task[b].r
        /\ sent[task[b].sentAt].msg.Header.Session = << "session", task[b].r >>

(* --------------------- claims on the input of the child ------------------ *)
\* the input_request envelopes sent so far
StdinRequests == {i \in DOMAIN sent : sent[i].socket = "stdin"}

\* C12: with interactive input, an input_request is sent only by a schedulePromptFn
\* whose sleep has returned, holding muDone, while isDone is false; a schedulePromptFn
\* that takes the lock once teardown has set isDone goes straight to the unlock, so an
\* execution that is done before the first sleep returns sends no input_request at all
C12_PromptOnlyWhileRunning ==
    /\ [](StdinRequests # {} => prompter[1].pc \notin {"idle", "sleeping", "lock"})
    /\ [][/\ StdinRequests' # StdinRequests =>
                /\ ~isDone /\ ~isDone'
                /\ \E p \in PrompterIds : /\ prompter[p].pc = "send"
                                          /\ prompter[p].slept
                                          /\ muDone = PrompterOwner(p)
          /\ \A p \in PrompterIds :
                isDone /\ prompter[p].pc = "lock" /\ prompter'[p].pc # "lock"
                    => prompter'[p].pc = "unlock" /\ sent' = sent]_vars

\* the child has exited and teardown has run before the first prompt was due: the
\* schedulePromptFn wakes up, sees isDone under the lock and sends nothing
C12_Witness ==
    /\ isDone
    /\ child = "reaped"
    /\ prompter[1].slept
    /\ prompter[1].pc = "unlock"
    /\ StdinRequests = {}

\* the sequence q holds the two chunks of s, the first one before the second
Holds(q, s) ==
    \E i, j \in DOMAIN q : i < j /\ q[i] = s[1] /\ q[j] = s[2]

\* C13: an answer whose callback finds isDone false is handed to a goroutine of its own
\* that writes the value and a newline to cmdStdin, and a new schedulePromptFn is
\* started that sleeps before it prompts; the callback itself never touches the pipe,
\* so DeliverInput returns whether or not the child reads; the write ends with the
\* whole line in the pipe, or fails because stdin is closed or the child is gone; an
\* answer that arrives after teardown starts neither
C13_AnswerWrittenAndRearmed ==
    /\ [](\A t \in Answers :
            /\ task[t].accepted =>
                  /\ writer[t].pc # "idle"
                  /\ writer[t].data = Line(t)
                  /\ prompter[RearmedBy(t)].pc # "idle"
                  /\ prompter[RearmedBy(t)].pc \notin {"sleeping"} => prompter[RearmedBy(t)].slept
            /\ ~task[t].accepted =>
                  writer[t].pc = "idle" /\ prompter[RearmedBy(t)].pc = "idle"
            /\ writer[t].pc = "end" /\ ~writer[t].failed => Holds(StdinReceived, Line(t))
            /\ writer[t].failed => cmdStdin # "open" \/ StdinReadEndClosed)
    /\ [][\A t \in Answers :
            /\ task[t].pc = "cbLock" /\ task'[t].pc # "cbLock" =>
                  /\ task'[t].accepted = ~isDone
                  /\ stdinPipe' = stdinPipe
            /\ task[t].pc = "cbUnlock" /\ task'[t].pc # "cbUnlock" =>
                  task'[t].ret = "nil" /\ stdinPipe' = stdinPipe]_vars

\* DeliverInput has returned for an accepted answer while the goroutine writing it is
\* blocked halfway, the pipe being full and the child not reading; the next prompt
\* has been sent meanwhile
C13_Witness ==
    \E t \in Answers :
        /\ task[t].accepted
        /\ task[t].ret = "nil"
        /\ task[t].order # 0
        /\ writer[t].pc = "writing"
        /\ writer[t].wrote = 1
        /\ Len(stdinPipe) = StdinCap
        /\ child = "running"
        /\ prompter[RearmedBy(t)].prompted

ParentOf(i) == sent[i].msg.ParentHeader.MsgID[2]

\* C21: the frames of every message sent on any socket, by Publish, Reply or
\* PromptInput, are the routing identities of the request it answers, in their order,
\* then the delimiter "<IDS|MSG>", then the signature and the four serialized parts of
\* the envelope
C21_IdentitiesThenDelimiter ==
    \A i \in DOMAIN sent :
        LET f == sent[i].frames
            ids == Identities(ParentOf(i))
        IN  /\ Len(f) = Len(ids) + 1 + 5
            /\ SubSeq(f, 1, Len(ids)) = ids
            /\ f[Len(ids) + 1] = Delimiter
            /\ SubSeq(f, Len(ids) + 2, Len(f)) = ToWireMsg(sent[i].msg, ConnectionKey)
            /\ \A k \in 1..Len(ids) : f[k] # Delimiter

\* a Publish for the request with two identities, a Reply for the request with one and
\* an input_request have all been sent
C21_Witness ==
    /\ \E i \in DOMAIN sent : sent[i].socket = "iopub" /\ ParentOf(i) = 1
    /\ \E i \in DOMAIN sent : sent[i].socket = "shell" /\ ParentOf(i) = 2
    /\ \E i \in DOMAIN sent : sent[i].socket = "stdin"

\* C22: on each socket the frames of one message stay together: every frame but the
\* first of a message comes right after the frame before it of the same message, and
\* the first frame of a message comes right after the last frame of another; a sender
\* writes frames only while it holds the socket, so at most one message per socket is
\* incomplete, and none when the socket is free; Publish goes to IOPub, Reply to Shell
\* and PromptInput to Stdin
C22_FramesNeverInterleave ==
    \A k \in Sockets :
        /\ \A i \in DOMAIN wire[k] :
              LET e == wire[k][i]
              IN  /\ sender[e.by].socket = k
                  /\ e.frame = sender[e.by].frames[e.k]
                  /\ e.k > 1 => /\ i > 1
                                /\ wire[k][i - 1].by = e.by
                                /\ wire[k][i - 1].k = e.k - 1
                  /\ e.k = 1 /\ i > 1 =>
                        /\ wire[k][i - 1].by # e.by
                        /\ wire[k][i - 1].k = Len(sender[wire[k][i - 1].by].frames)
        /\ \A s \in Senders :
              sender[s].pc = "sendMulti" /\ sender[s].socket = k => sockLock[k] = s
        /\ sockLock[k] = 0 /\ wire[k] # << >> =>
              wire[k][Len(wire[k])].k = Len(sender[wire[k][Len(wire[k])].by].frames)

\* two Publish calls at the same time: one is halfway through its frames on IOPub and
\* the other waits for the socket
C22_Witness ==
    \E s, w \in Senders :
        /\ s # w
        /\ sender[s].op = "Publish" /\ sender[w].op = "Publish"
        /\ sender[s].pc = "sendMulti" /\ sender[s].next = 4
        /\ sender[w].pc = "lock"

(* -------------------- claims on the widget-update queue ------------------ *)
\* the sequence a+1, a+2, ..., b
Range(a, b) == [k \in 1..(b - a) |-> a + k]
Min(a, b) == IF a < b THEN a ELSE b

\* C23: PipeWriterFifo never holds more than its capacity and producing never waits;
\* as long as nothing has been taken out, the queue holds the first updates in the
\* order they were produced, up to the capacity, and every later one was dropped: after
\* capacity + 5 updates, exactly the first "capacity" are queued and the 5 newest dropped
C23_FifoBoundedNeverBlocks ==
    /\ Len(fifo) <= FifoCap
    /\ produced < MaxUpdates => ENABLED ProduceUpdate
    /\ Len(fifo) + Len(dropped) + consumed = produced
    /\ consumed = 0 =>
          /\ fifo = Range(0, Min(produced, FifoCap))
          /\ dropped = Range(Min(produced, FifoCap), produced)
    /\ consumed = 0 /\ produced = FifoCap + 5 => Len(fifo) = FifoCap /\ Len(dropped) = 5

\* capacity + 5 updates were produced and none consumed
C23_Witness ==
    /\ consumed = 0
    /\ produced = FifoCap + 5
    /\ Len(dropped) = 5

C25_TamperedRejected ==
    codecOut.done /\ codecTampered # 0 =>
        /\ codecFrames # Encode(codecIn, codecKey)
        /\ codecOut.err = InvalidSignature
        /\ codecOut.env = ZeroEnvelope

\* the content part was replaced, the signature left as it was, and Decode refused
C25_Witness ==
    /\ codecTampered = 6
    /\ codecOut.done
    /\ codecOut.err = InvalidSignature
    /\ codecFrames[2] = Encode(codecIn, codecKey)[2]

C27_OpenedBeforeRequest ==
    \A i \in DOMAIN lspLog :
        lspLog[i].method \in {"definition", "hover"} =>
            \E j \in 1..(i - 1) :
                /\ lspLog[j].method = "didOpen"
                /\ lspLog[j].file = lspLog[i].file
                /\ lspLog[j].ok

(* ------------------- claims on failures and late answers ----------------- *)
\* the PromptInput calls made so far did not overlap one another
PromptsInTurn == \A p \in CallsOf("PromptInput") : Clean(p)
\* the PromptInput calls that have registered, and the last of them
Registered == {p \in CallsOf("PromptInput") : task[p].ret = "nil"}
LastRegistered ==
    CHOOSE p \in Registered : \A q \in Registered : task[q].order <= task[p].order

\* C28: a PromptInput whose input_request could not be built or sent returns an error
\* straight from the send, and the step that fails changes neither stdinMsg nor stdinFn;
\* so after it the slot holds what it held before: with the calls made in turn, the
\* registration of the last call that succeeded, or nothing if none did
C28_FailedPromptKeepsSlot ==
    /\ [](\A t \in CallsOf("PromptInput") :
            task[t].ret = "err" /\ PromptsInTurn /\ (\A p \in CallsOf("PromptInput") :
                                                        task[p].pc = "returned") =>
                IF Registered = {}
                THEN stdinMsg = 0 /\ stdinFn = 0
                ELSE /\ stdinMsg = task[LastRegistered].r
                     /\ stdinFn = task[LastRegistered].arg)
    /\ [][\A t \in Tasks :
            task'[t].op = "PromptInput" /\ task'[t].ret = "err" /\ task[t].ret # "err" =>
                /\ task[t].pc = "send"
                /\ task'[t].pc = "returned"
                /\ stdinMsg' = stdinMsg
                /\ stdinFn' = stdinFn]_vars

\* a PromptInput for one request registered, then a PromptInput for the other request
\* failed to send, and the slot still holds the first registration
C28_Witness ==
    \E p, t \in CallsOf("PromptInput") :
        /\ task[p].ret = "nil"
        /\ task[t].ret = "err"
        /\ task[t].sentAt # 0
        /\ Returned(p, t)
        /\ task[p].r # task[t].r
        /\ stdinMsg = task[p].r
        /\ stdinFn = task[p].arg

\* C29: once done() has set isDone, the slot is either empty or whole, so a DeliverInput
\* reaches writeStdinFn or returns; a writeStdinFn that takes the lock with isDone set
\* starts no writer and no schedulePromptFn, writes nothing to the pipe, sends nothing,
\* and DeliverInput returns nil; no answer is accepted from then on
C29_LateAnswerDropped ==
    /\ [](isDone => ((stdinMsg = 0) <=> (stdinFn = 0)))
    /\ [](\A t \in Answers :
            task[t].pc = "returned" /\ ~task[t].accepted =>
                /\ task[t].ret = "nil"
                /\ writer[t] = IdleWriter
                /\ prompter[RearmedBy(t)] = IdlePrompter)
    /\ [][\A t \in Answers :
            /\ isDone /\ task[t].pc = "cbLock" /\ task'[t].pc # "cbLock" =>
                  /\ task'[t].pc = "cbUnlock"
                  /\ ~task'[t].accepted
                  /\ writer' = writer
                  /\ prompter' = prompter
                  /\ stdinPipe' = stdinPipe
                  /\ cmdStdin' = cmdStdin
                  /\ sent' = sent
            /\ isDone /\ ~task[t].accepted => ~task'[t].accepted]_vars

\* Exec has returned after its teardown, the answer reached writeStdinFn, which
\* dropped it, and DeliverInput has returned nil
C29_Witness ==
    \E t \in Answers :
        /\ dpc[0] = "returned"
        /\ \E i \in DOMAIN invoked : invoked[i].task = t /\ invoked[i].fn = writeStdinFn
        /\ task[t].pc = "returned"
        /\ task[t].ret = "nil"
        /\ ~task[t].accepted
        /\ writer[t] = IdleWriter
        /\ stdinPipe = << >>

\* C30: ProgramFinished is notified for an execution only after ProgramStart was
\* notified for it, whichever way Exec ends
C30_FinishedOnlyAfterStart ==
    Has("ProgramFinished") => Before("ProgramStart", "ProgramFinished")

(* --------------------------------- C31 --------------------------------- *)
\* C31: once Exec has left its body (it returned, with or without an error, and
\* whether the child exited by itself, was interrupted or was killed), its interrupt
\* callback is no longer in the kernel's registry.
C31_NoSubscriptionAfterExec == ExecLeft => ~subscribed

\* an Exec that returned nil after an interrupt whose callback read interruptId while
\* it was still the zero value, and so removed nothing itself
C31_Witness ==
    /\ execPc = "returned"
    /\ execErr = "nil"
    /\ \E h \in Handlers :
        /\ handler[h].exec = execNo
        /\ handler[h].sawId = "zero"
        /\ handler[h].sigint

(* --------------------------------- C32 --------------------------------- *)
\* C32 (as claimed): every interrupt requested while the child is running starts the
\* Executor's callback, which sends the interrupt signal to the child: from the start
\* of the child to its exit the Executor is subscribed.
C32_InterruptAlwaysSignalled ==
    [][(nInterrupts' = nInterrupts + 1 /\ child = "running")
          => handler'[nInterrupts'].pc = "signal"]_vars

(* --------------------------------- C33 --------------------------------- *)
\* C33 (as claimed): a display id is in KnownBlockIds only if a create (display_data)
\* for it was published, or is still being published by the call that inserted it;
\* after a failed create the id is unknown again and the next call creates.
C33_KnownOnlyIfCreated ==
    \A id \in KnownBlockIds :
        \E c \in UpdateCallsFor(id) :
            /\ task[c].msgType = "display_data"
            /\ task[c].pc # "returned" \/ task[c].ret = "nil"

(* --------------------------------- C34 --------------------------------- *)
\* C34: with the default sinks a failed publication never ends a stream copy: once
\* the child was started, a copy that has finished has handed every chunk the child
\* wrote to its sink without an I/O error, and every chunk whose publication failed
\* was accepted by the sink all the same.
C34_DefaultSinkNeverFails ==
    ~customSink =>
        \A s \in Streams :
            /\ \A i \in DOMAIN pubErr[s] : \E j \in DOMAIN sunk[s] : sunk[s][j] = pubErr[s][i]
            /\ (child # "none" /\ copier[s] = "done") =>
                   ~copyErr[s] /\ sunk[s] = written[s]

\* Exec returned after the publication of the first chunk of a stream failed and the
\* rest of that stream was drained nevertheless
C34_Witness ==
    /\ ~customSink
    /\ execPc = "returned"
    /\ \E s \in Streams :
        /\ pubErr[s] # << >>
        /\ Head(pubErr[s]) = 1
        /\ Len(written[s]) = MaxOut
        /\ sunk[s] = written[s]

(* --------------------------------- C35 --------------------------------- *)
\* the schedulePromptFn goroutines that have a prompt still to issue
Scheduled == {p \in PrompterIds : prompter[p].pc \in {"sleeping", "lock", "send", "setMsg", "setFn"}}

\* C35 (as claimed): an execution never has more than one prompt scheduled at a time,
\* whatever input_reply messages DeliverInput is given.
C35_OnePromptPending == Cardinality(Scheduled) <= 1

(* --------------------------------- C36 --------------------------------- *)
\* Exec has returned, its completion signal has fired and no callback waits on it
Finished ==
    /\ execPc = "returned"
    /\ Closed(doneChan)
    /\ \A h \in Handlers : handler[h].pc # "parked"

\* C36 (as claimed): once the child has exited, or an interrupt was requested while it
\* runs, Exec eventually returns, the completion signal fires and the callbacks
\* waiting on it are released.
C36_ExecTerminates ==
    (child = "exited" \/ (child = "running" /\ nInterrupts > 0)) ~> Finished

\* the same with the interrupt counted only when it started the callback
ExecTerminatesWhenDelivered ==
    (child = "exited" \/ (child = "running" /\ \E h \in Handlers : handler[h].pc # "idle"))
        ~> Finished

(* --------------------------------- C37 --------------------------------- *)
\* the runs of the code of call c
RunsOf(c) == {i \in DOMAIN ran : ran[i].call = c}

\* C37 (as claimed): the script of one LoadScriptModuleAndRun call runs the code at most
\* once and only with the module loaded, exactly once as soon as the module is
\* loaded, and document.head never holds two script elements with one src.
C37_RunsOnceAfterLoad ==
    /\ \A c \in 1..evaluated :
        /\ Cardinality(RunsOf(c)) <= 1
        /\ \A i \in RunsOf(c) : ran[i].loaded
        /\ IsLoaded(head, emitted[c].src) => Cardinality(RunsOf(c)) = 1
    /\ \A i, j \in DOMAIN head : head[i].src = head[j].src => i = j
====
